---------------------------- MODULE Spec2Model ----------------------------
(***************************************************************************)
(* Model of the event-to-stock matching and topic-classification engine    *)
(* of the portfolio-hedging dashboard: scripts/backfill-resolutions.ts     *)
(* (extractTopic, isValidMatch, matchEventToStocks, fetchResolvedEvents)   *)
(* and lib/correlation-model.ts (findHistoricalMatchesAsync).              *)
(*                                                                         *)
(* Text is a sequence of one-character strings, so that substring search,  *)
(* lower-casing and the word-boundary test are computed character by       *)
(* character as the code computes them.                                    *)
(***************************************************************************)
EXTENDS Integers, Sequences, FiniteSets, TLC

VARIABLES
  pc,        \* position of the matching pipeline: "input", "topic", "matched"
  event,     \* the ResolvedEvent being matched: title, description, topic
  matches,   \* the list returned by matchEventToStocks(event)
  fpc,       \* position of the backfill script: "fetching", "fetched", "exited"
  offset,    \* fetchResolvedEvents: offset of the next page request
  hasMore,   \* fetchResolvedEvents: the loop condition
  allEvents, \* fetchResolvedEvents: the events collected so far
  ipc,       \* position of findHistoricalMatchesAsync: "start", "replied", "done"
  betTitle,  \* findHistoricalMatchesAsync: the title of the bet
  affectedTickers,  \* findHistoricalMatchesAsync: the tickers of the bet
  apiKey,    \* process.env.GROQ_API_KEY is set
  content,   \* the reply of callGroqWithFallback
  semanticMatches,  \* the result of findSemanticMatches
  insight,   \* the CorrelationInsight returned
  matchedPairs,  \* main: the pairs of step 2, with the prices of step 3
  pricesFetched, \* main: the number of prices found
  file,          \* data/resolutions.json
  gpc,           \* position of callGroqWithFallback: "calling", "returned"
  request,       \* callGroqWithFallback: the prompt and maxTokens
  tried,         \* the requests sent to the Groq API so far
  lastReply,     \* the answer to the last request
  result,        \* the value callGroqWithFallback returns
  apc,           \* position of analyzeWithGroq: "calling", "returned", "thrown"
  context,       \* analyzeWithGroq: the portfolio and markets given
  called,        \* the models tryModel was called for so far
  answer,        \* what the last call of tryModel met
  analysis,      \* the AnalysisResponse analyzeWithGroq returns
  rpc,           \* position of the handler of /api/correlation
  httpRequest,   \* the request: its method, and its body or its search parameters
  analysisStarted,  \* getCorrelationInsights was called
  llmRequests,   \* the number of calls of callGroqWithFallback made for the request
  error,         \* the exception the catch clause of the handler caught
  response       \* the NextResponse the handler returns

matchVars == <<pc, event, matches>>
fetchVars == <<fpc, offset, hasMore, allEvents>>
insightVars == <<ipc, betTitle, affectedTickers, apiKey, content, semanticMatches, insight>>
mainVars == <<matchedPairs, pricesFetched, file>>
groqVars == <<gpc, request, tried, lastReply, result>>
hedgeVars == <<apc, context, called, answer, analysis>>
routeVars == <<rpc, httpRequest, analysisStarted, llmRequests, error, response>>
vars == <<pc, event, matches, fpc, offset, hasMore, allEvents,
          ipc, betTitle, affectedTickers, apiKey, content, semanticMatches, insight,
          matchedPairs, pricesFetched, file,
          gpc, request, tried, lastReply, result,
          apc, context, called, answer, analysis,
          rpc, httpRequest, analysisStarted, llmRequests, error, response>>

(***************************************************************************)
(* String primitives of the JavaScript runtime, on sequences of characters *)
(***************************************************************************)

\* String.prototype.toLowerCase on the letters the tables and inputs use
LowerOf ==
  "A" :> "a" @@ "B" :> "b" @@ "C" :> "c" @@ "D" :> "d" @@ "E" :> "e" @@
  "F" :> "f" @@ "G" :> "g" @@ "H" :> "h" @@ "I" :> "i" @@ "J" :> "j" @@
  "K" :> "k" @@ "L" :> "l" @@ "M" :> "m" @@ "N" :> "n" @@ "O" :> "o" @@
  "P" :> "p" @@ "Q" :> "q" @@ "R" :> "r" @@ "S" :> "s" @@ "T" :> "t" @@
  "U" :> "u" @@ "V" :> "v" @@ "W" :> "w" @@ "X" :> "x" @@ "Y" :> "y" @@
  "Z" :> "z"

toLowerCase(s) ==
  [i \in 1..Len(s) |-> IF s[i] \in DOMAIN LowerOf THEN LowerOf[s[i]] ELSE s[i]]

\* the character class [a-z] of the regular expressions in isValidMatch
LowerLetters ==
  {"a","b","c","d","e","f","g","h","i","j","k","l","m",
   "n","o","p","q","r","s","t","u","v","w","x","y","z"}

\* pat occurs in text at the 0-based index i
OccursAt(text, pat, i) == \A j \in 1..Len(pat) : text[i + j] = pat[j]

\* String.prototype.indexOf: the 0-based index of the first occurrence, or -1
indexOf(text, pat) ==
  LET hits == {i \in 0..(Len(text) - Len(pat)) : OccursAt(text, pat, i)}
  IN  IF hits = {} THEN -1 ELSE CHOOSE i \in hits : \A k \in hits : i <= k

\* String.prototype.includes
includes(text, pat) == \E i \in 0..(Len(text) - Len(pat)) : OccursAt(text, pat, i)

\* String.prototype.slice(from, to) with 0 <= from, to <= length
slice(text, from, to) == SubSeq(text, from + 1, to)

max(a, b) == IF a >= b THEN a ELSE b
min(a, b) == IF a <= b THEN a ELSE b

\* the template literal `${a} ${b}`
Spaced(a, b) == a \o <<" ">> \o b

Range(s) == {s[i] : i \in 1..Len(s)}

\* the sequence of the elements of s whose index satisfies Keep, in order
\* (Array.prototype.filter with an index test)
FilterIdx(s, Keep(_)) ==
  LET idx == {i \in 1..Len(s) : Keep(i)}
  IN  [k \in 1..Cardinality(idx) |->
         s[CHOOSE i \in idx : Cardinality({j \in idx : j < i}) = k - 1]]

\* no request to /api/correlation is being handled
RouteIdle ==
  /\ rpc = "idle" /\ httpRequest = [method |-> "none"]
  /\ analysisStarted = FALSE /\ llmRequests = 0
  /\ error = [caught |-> FALSE] /\ response = [status |-> 0]

\* no call of analyzeWithGroq is under way
HedgeIdle ==
  /\ apc = "idle" /\ context = "" /\ called = << >>
  /\ answer = [kind |-> "none"] /\ analysis = [recommendations |-> << >>]

\* no call of callGroqWithFallback is under way
GroqIdle ==
  /\ gpc = "idle" /\ request = [prompt |-> "", maxTokens |-> 0]
  /\ tried = << >> /\ lastReply = [kind |-> "none"] /\ result = [isNull |-> TRUE, text |-> ""]

\* main has not reached step 2 and data/resolutions.json is not written
MainIdle ==
  /\ matchedPairs = << >> /\ pricesFetched = 0
  /\ file = [written |-> FALSE]

\* no call of findHistoricalMatchesAsync is under way
InsightIdle ==
  /\ ipc = "idle" /\ betTitle = << >> /\ affectedTickers = << >> /\ apiKey = FALSE
  /\ content = [kind |-> "none", indices |-> << >>]
  /\ semanticMatches = << >> /\ insight = [matchCount |-> 0]

(***************************************************************************)
(* The lookup tables of scripts/backfill-resolutions.ts                    *)
(***************************************************************************)

(* COMPANY_MAPPINGS, in declaration order (Object.entries order): key is the   *)
(* property name, which phase 1 pushes as the ticker.                           *)
COMPANY_MAPPINGS ==
  <<
  [key |-> "AAPL", ticker |-> "AAPL",
   names |-> << <<"A","p","p","l","e">>, <<"i","P","h","o","n","e">>, <<"i","P","a","d">>,
               <<"M","a","c","B","o","o","k">>, <<"A","p","p","l","e"," ","W","a","t","c","h">>,
               <<"A","i","r","P","o","d","s">>, <<"V","i","s","i","o","n"," ","P","r","o">>,
               <<"T","i","m"," ","C","o","o","k">>, <<"A","p","p"," ","S","t","o","r","e">>, <<"i","O","S">>,
               <<"m","a","c","O","S">>, <<"A","p","p","l","e"," ","T","V">>,
               <<"A","p","p","l","e"," ","M","u","s","i","c">>, <<"i","C","l","o","u","d">>,
               <<"S","i","r","i">>, <<"A","p","p","l","e"," ","S","i","l","i","c","o","n">>, <<"M","1">>,
               <<"M","2">>, <<"M","3">>, <<"M","4">> >>,
   exactOnly |-> << >>],
  [key |-> "MSFT", ticker |-> "MSFT",
   names |-> << <<"M","i","c","r","o","s","o","f","t">>, <<"A","z","u","r","e">>,
               <<"W","i","n","d","o","w","s">>, <<"S","a","t","y","a"," ","N","a","d","e","l","l","a">>,
               <<"X","b","o","x">>, <<"O","f","f","i","c","e"," ","3","6","5">>,
               <<"L","i","n","k","e","d","I","n">>, <<"G","i","t","H","u","b">>, <<"B","i","n","g">>,
               <<"C","o","p","i","l","o","t">>, <<"S","u","r","f","a","c","e">>,
               <<"A","c","t","i","v","i","s","i","o","n">> >>,
   exactOnly |-> << <<"M","i","c","r","o","s","o","f","t"," ","T","e","a","m","s">> >>],
  [key |-> "GOOGL", ticker |-> "GOOGL",
   names |-> << <<"G","o","o","g","l","e">>, <<"A","l","p","h","a","b","e","t">>,
               <<"Y","o","u","T","u","b","e">>, <<"S","u","n","d","a","r"," ","P","i","c","h","a","i">>,
               <<"A","n","d","r","o","i","d">>, <<"C","h","r","o","m","e">>, <<"P","i","x","e","l">>,
               <<"W","a","y","m","o">>, <<"D","e","e","p","M","i","n","d">>,
               <<"G","o","o","g","l","e"," ","C","l","o","u","d">>, <<"G","m","a","i","l">>,
               <<"G","o","o","g","l","e"," ","M","a","p","s">>,
               <<"G","o","o","g","l","e"," ","S","e","a","r","c","h">>, <<"B","a","r","d">>,
               <<"G","o","o","g","l","e"," ","P","l","a","y">> >>,
   exactOnly |-> << <<"G","o","o","g","l","e"," ","G","e","m","i","n","i">> >>],
  [key |-> "META", ticker |-> "META",
   names |-> << <<"F","a","c","e","b","o","o","k">>, <<"I","n","s","t","a","g","r","a","m">>,
               <<"W","h","a","t","s","A","p","p">>,
               <<"M","a","r","k"," ","Z","u","c","k","e","r","b","e","r","g">>,
               <<"Z","u","c","k","e","r","b","e","r","g">>, <<"T","h","r","e","a","d","s">>,
               <<"O","c","u","l","u","s">>, <<"Q","u","e","s","t">>,
               <<"R","e","a","l","i","t","y"," ","L","a","b","s">>, <<"M","e","s","s","e","n","g","e","r">>,
               <<"M","e","t","a","v","e","r","s","e">> >>,
   exactOnly |-> << <<"M","e","t","a">> >>],
  [key |-> "AMZN", ticker |-> "AMZN",
   names |-> << <<"A","m","a","z","o","n">>, <<"A","W","S">>, <<"J","e","f","f"," ","B","e","z","o","s">>,
               <<"A","n","d","y"," ","J","a","s","s","y">>, <<"A","l","e","x","a">>, <<"E","c","h","o">>,
               <<"K","i","n","d","l","e">>, <<"W","h","o","l","e"," ","F","o","o","d","s">>,
               <<"A","m","a","z","o","n"," ","W","e","b"," ","S","e","r","v","i","c","e","s">>,
               <<"R","i","n","g">>, <<"T","w","i","t","c","h">>, <<"M","G","M">>,
               <<"A","m","a","z","o","n"," ","P","r","i","m","e">>,
               <<"B","l","u","e"," ","O","r","i","g","i","n">>,
               <<"P","r","i","m","e"," ","V","i","d","e","o">>, <<"P","r","i","m","e"," ","D","a","y">> >>,
   exactOnly |-> << <<"A","m","a","z","o","n"," ","P","r","i","m","e">> >>],
  [key |-> "NVDA", ticker |-> "NVDA",
   names |-> << <<"N","v","i","d","i","a">>, <<"N","V","I","D","I","A">>,
               <<"J","e","n","s","e","n"," ","H","u","a","n","g">>, <<"G","e","F","o","r","c","e">>,
               <<"R","T","X">>, <<"C","U","D","A">>, <<"A","1","0","0">>, <<"H","1","0","0">>,
               <<"B","l","a","c","k","w","e","l","l">>, <<"G","r","a","c","e"," ","H","o","p","p","e","r">>,
               <<"D","G","X">>, <<"M","e","l","l","a","n","o","x">> >>,
   exactOnly |-> << >>],
  [key |-> "AMD", ticker |-> "AMD",
   names |-> << <<"A","M","D">>, <<"L","i","s","a"," ","S","u">>, <<"R","y","z","e","n">>,
               <<"R","a","d","e","o","n">>, <<"E","P","Y","C">>, <<"X","i","l","i","n","x">>,
               <<"I","n","s","t","i","n","c","t">>, <<"R","O","C","m">> >>,
   exactOnly |-> << >>],
  [key |-> "INTC", ticker |-> "INTC",
   names |-> << <<"P","a","t"," ","G","e","l","s","i","n","g","e","r">>, <<"C","o","r","e"," ","i">>,
               <<"X","e","o","n">>, <<"A","l","t","e","r","a">>, <<"M","o","b","i","l","e","y","e">> >>,
   exactOnly |-> << <<"I","n","t","e","l">> >>],
  [key |-> "ARM", ticker |-> "ARM",
   names |-> << <<"A","R","M"," ","H","o","l","d","i","n","g","s">>,
               <<"A","r","m"," ","H","o","l","d","i","n","g","s">>, <<"A","R","M"," ","c","h","i","p","s">> >>,
   exactOnly |-> << >>],
  [key |-> "AVGO", ticker |-> "AVGO",
   names |-> << <<"B","r","o","a","d","c","o","m">>, <<"V","M","w","a","r","e">> >>,
   exactOnly |-> << >>],
  [key |-> "QCOM", ticker |-> "QCOM",
   names |-> << <<"Q","u","a","l","c","o","m","m">>, <<"S","n","a","p","d","r","a","g","o","n">> >>,
   exactOnly |-> << >>],
  [key |-> "TSM", ticker |-> "TSM",
   names |-> << <<"T","S","M","C">>,
               <<"T","a","i","w","a","n"," ","S","e","m","i","c","o","n","d","u","c","t","o","r">> >>,
   exactOnly |-> << >>],
  [key |-> "ASML", ticker |-> "ASML",
   names |-> << <<"A","S","M","L">> >>,
   exactOnly |-> << >>],
  [key |-> "MU", ticker |-> "MU",
   names |-> << <<"M","i","c","r","o","n">> >>,
   exactOnly |-> << >>],
  [key |-> "TSLA", ticker |-> "TSLA",
   names |-> << <<"T","e","s","l","a">>, <<"E","l","o","n"," ","M","u","s","k">>,
               <<"C","y","b","e","r","t","r","u","c","k">>, <<"M","o","d","e","l"," ","S">>,
               <<"M","o","d","e","l"," ","3">>, <<"M","o","d","e","l"," ","X">>,
               <<"M","o","d","e","l"," ","Y">>, <<"S","u","p","e","r","c","h","a","r","g","e","r">>,
               <<"P","o","w","e","r","w","a","l","l">>, <<"M","e","g","a","p","a","c","k">>,
               <<"F","u","l","l"," ","S","e","l","f","-","D","r","i","v","i","n","g">>, <<"F","S","D">>,
               <<"A","u","t","o","p","i","l","o","t">>, <<"G","i","g","a","f","a","c","t","o","r","y">>,
               <<"S","p","a","c","e","X">>, <<"S","t","a","r","l","i","n","k">>,
               <<"N","e","u","r","a","l","i","n","k">>, <<"x","A","I">> >>,
   exactOnly |-> << >>],
  [key |-> "RIVN", ticker |-> "RIVN",
   names |-> << <<"R","i","v","i","a","n">>, <<"R","1","T">>, <<"R","1","S">> >>,
   exactOnly |-> << >>],
  [key |-> "LCID", ticker |-> "LCID",
   names |-> << <<"L","u","c","i","d">>, <<"L","u","c","i","d"," ","A","i","r">>,
               <<"L","u","c","i","d"," ","M","o","t","o","r","s">> >>,
   exactOnly |-> << >>],
  [key |-> "NIO", ticker |-> "NIO",
   names |-> << <<"N","I","O">>, <<"N","i","o">> >>,
   exactOnly |-> << >>],
  [key |-> "XPEV", ticker |-> "XPEV",
   names |-> << <<"X","P","e","n","g">>, <<"X","p","e","n","g">> >>,
   exactOnly |-> << >>],
  [key |-> "LI", ticker |-> "LI",
   names |-> << <<"L","i"," ","A","u","t","o">> >>,
   exactOnly |-> << >>],
  [key |-> "FSR", ticker |-> "FSR",
   names |-> << <<"F","i","s","k","e","r">> >>,
   exactOnly |-> << >>],
  [key |-> "F", ticker |-> "F",
   names |-> << <<"F","o","r","d"," ","M","o","t","o","r">>, <<"F","o","r","d"," ","F","-","1","5","0">>,
               <<"M","u","s","t","a","n","g"," ","M","a","c","h","-","E">>,
               <<"J","i","m"," ","F","a","r","l","e","y">> >>,
   exactOnly |-> << <<"F","o","r","d">> >>],
  [key |-> "GM", ticker |-> "GM",
   names |-> << <<"G","e","n","e","r","a","l"," ","M","o","t","o","r","s">>, <<"C","h","e","v","y">>,
               <<"C","h","e","v","r","o","l","e","t">>, <<"C","a","d","i","l","l","a","c">>, <<"G","M","C">>,
               <<"M","a","r","y"," ","B","a","r","r","a">> >>,
   exactOnly |-> << >>],
  [key |-> "COIN", ticker |-> "COIN",
   names |-> << <<"C","o","i","n","b","a","s","e">>,
               <<"B","r","i","a","n"," ","A","r","m","s","t","r","o","n","g">> >>,
   exactOnly |-> << >>],
  [key |-> "MSTR", ticker |-> "MSTR",
   names |-> << <<"M","i","c","r","o","S","t","r","a","t","e","g","y">>,
               <<"M","i","c","h","a","e","l"," ","S","a","y","l","o","r">>, <<"S","a","y","l","o","r">> >>,
   exactOnly |-> << >>],
  [key |-> "MARA", ticker |-> "MARA",
   names |-> << <<"M","a","r","a","t","h","o","n"," ","D","i","g","i","t","a","l">>,
               <<"M","a","r","a","t","h","o","n"," ","H","o","l","d","i","n","g","s">> >>,
   exactOnly |-> << >>],
  [key |-> "RIOT", ticker |-> "RIOT",
   names |-> << <<"R","i","o","t"," ","P","l","a","t","f","o","r","m","s">>,
               <<"R","i","o","t"," ","B","l","o","c","k","c","h","a","i","n">> >>,
   exactOnly |-> << >>],
  [key |-> "HOOD", ticker |-> "HOOD",
   names |-> << <<"R","o","b","i","n","h","o","o","d">>, <<"V","l","a","d"," ","T","e","n","e","v">> >>,
   exactOnly |-> << >>],
  [key |-> "SQ", ticker |-> "SQ",
   names |-> << <<"S","q","u","a","r","e">>, <<"C","a","s","h"," ","A","p","p">>,
               <<"J","a","c","k"," ","D","o","r","s","e","y">> >>,
   exactOnly |-> << <<"B","l","o","c","k">> >>],
  [key |-> "PYPL", ticker |-> "PYPL",
   names |-> << <<"P","a","y","P","a","l">>, <<"V","e","n","m","o">> >>,
   exactOnly |-> << >>],
  [key |-> "AFRM", ticker |-> "AFRM",
   names |-> << <<"A","f","f","i","r","m">>, <<"M","a","x"," ","L","e","v","c","h","i","n">> >>,
   exactOnly |-> << >>],
  [key |-> "SOFI", ticker |-> "SOFI",
   names |-> << <<"S","o","F","i">>, <<"S","o","c","i","a","l"," ","F","i","n","a","n","c","e">> >>,
   exactOnly |-> << >>],
  [key |-> "NU", ticker |-> "NU",
   names |-> << <<"N","u","b","a","n","k">>, <<"N","u"," ","H","o","l","d","i","n","g","s">> >>,
   exactOnly |-> << >>],
  [key |-> "NFLX", ticker |-> "NFLX",
   names |-> << <<"N","e","t","f","l","i","x">>, <<"R","e","e","d"," ","H","a","s","t","i","n","g","s">>,
               <<"T","e","d"," ","S","a","r","a","n","d","o","s">> >>,
   exactOnly |-> << >>],
  [key |-> "DIS", ticker |-> "DIS",
   names |-> << <<"D","i","s","n","e","y">>, <<"B","o","b"," ","I","g","e","r">>, <<"P","i","x","a","r">>,
               <<"M","a","r","v","e","l">>, <<"S","t","a","r"," ","W","a","r","s">>, <<"H","u","l","u">>,
               <<"E","S","P","N">>, <<"D","i","s","n","e","y","+">> >>,
   exactOnly |-> << >>],
  [key |-> "SNAP", ticker |-> "SNAP",
   names |-> << <<"S","n","a","p","c","h","a","t">>, <<"E","v","a","n"," ","S","p","i","e","g","e","l">> >>,
   exactOnly |-> << <<"S","n","a","p"," ","I","n","c">> >>],
  [key |-> "TWTR", ticker |-> "TWTR",
   names |-> << <<"T","w","i","t","t","e","r">> >>,
   exactOnly |-> << >>],
  [key |-> "X", ticker |-> "X",
   names |-> << <<"X"," ","C","o","r","p">>, <<"T","w","i","t","t","e","r","/","X">> >>,
   exactOnly |-> << >>],
  [key |-> "PINS", ticker |-> "PINS",
   names |-> << <<"P","i","n","t","e","r","e","s","t">> >>,
   exactOnly |-> << >>],
  [key |-> "RDDT", ticker |-> "RDDT",
   names |-> << <<"R","e","d","d","i","t">> >>,
   exactOnly |-> << >>],
  [key |-> "SPOT", ticker |-> "SPOT",
   names |-> << <<"S","p","o","t","i","f","y">>, <<"D","a","n","i","e","l"," ","E","k">> >>,
   exactOnly |-> << >>],
  [key |-> "RBLX", ticker |-> "RBLX",
   names |-> << <<"R","o","b","l","o","x">> >>,
   exactOnly |-> << >>],
  [key |-> "TTWO", ticker |-> "TTWO",
   names |-> << <<"T","a","k","e","-","T","w","o">>,
               <<"R","o","c","k","s","t","a","r"," ","G","a","m","e","s">>, <<"G","T","A">>,
               <<"G","r","a","n","d"," ","T","h","e","f","t"," ","A","u","t","o">> >>,
   exactOnly |-> << >>],
  [key |-> "EA", ticker |-> "EA",
   names |-> << <<"E","l","e","c","t","r","o","n","i","c"," ","A","r","t","s">>,
               <<"E","A"," ","S","p","o","r","t","s">>, <<"F","I","F","A">>, <<"M","a","d","d","e","n">> >>,
   exactOnly |-> << >>],
  [key |-> "ATVI", ticker |-> "ATVI",
   names |-> << <<"A","c","t","i","v","i","s","i","o","n">>, <<"B","l","i","z","z","a","r","d">>,
               <<"C","a","l","l"," ","o","f"," ","D","u","t","y">>,
               <<"W","o","r","l","d"," ","o","f"," ","W","a","r","c","r","a","f","t">> >>,
   exactOnly |-> << >>],
  [key |-> "SONY", ticker |-> "SONY",
   names |-> << <<"S","o","n","y">>, <<"P","l","a","y","S","t","a","t","i","o","n">>, <<"P","S","5">> >>,
   exactOnly |-> << >>],
  [key |-> "CRM", ticker |-> "CRM",
   names |-> << <<"S","a","l","e","s","f","o","r","c","e">>,
               <<"M","a","r","c"," ","B","e","n","i","o","f","f">>, <<"S","l","a","c","k">> >>,
   exactOnly |-> << >>],
  [key |-> "ORCL", ticker |-> "ORCL",
   names |-> << <<"L","a","r","r","y"," ","E","l","l","i","s","o","n">>,
               <<"O","r","a","c","l","e"," ","C","l","o","u","d">> >>,
   exactOnly |-> << <<"O","r","a","c","l","e">> >>],
  [key |-> "NOW", ticker |-> "NOW",
   names |-> << <<"S","e","r","v","i","c","e","N","o","w">> >>,
   exactOnly |-> << >>],
  [key |-> "SNOW", ticker |-> "SNOW",
   names |-> << <<"S","n","o","w","f","l","a","k","e">> >>,
   exactOnly |-> << >>],
  [key |-> "DDOG", ticker |-> "DDOG",
   names |-> << <<"D","a","t","a","d","o","g">> >>,
   exactOnly |-> << >>],
  [key |-> "NET", ticker |-> "NET",
   names |-> << <<"C","l","o","u","d","f","l","a","r","e">> >>,
   exactOnly |-> << >>],
  [key |-> "ZS", ticker |-> "ZS",
   names |-> << <<"Z","s","c","a","l","e","r">> >>,
   exactOnly |-> << >>],
  [key |-> "CRWD", ticker |-> "CRWD",
   names |-> << <<"C","r","o","w","d","S","t","r","i","k","e">>,
               <<"G","e","o","r","g","e"," ","K","u","r","t","z">> >>,
   exactOnly |-> << >>],
  [key |-> "PANW", ticker |-> "PANW",
   names |-> << <<"P","a","l","o"," ","A","l","t","o"," ","N","e","t","w","o","r","k","s">> >>,
   exactOnly |-> << >>],
  [key |-> "OKTA", ticker |-> "OKTA",
   names |-> << <<"O","k","t","a">> >>,
   exactOnly |-> << >>],
  [key |-> "MDB", ticker |-> "MDB",
   names |-> << <<"M","o","n","g","o","D","B">> >>,
   exactOnly |-> << >>],
  [key |-> "PLTR", ticker |-> "PLTR",
   names |-> << <<"P","a","l","a","n","t","i","r">>, <<"P","e","t","e","r"," ","T","h","i","e","l">>,
               <<"A","l","e","x"," ","K","a","r","p">> >>,
   exactOnly |-> << >>],
  [key |-> "ZM", ticker |-> "ZM",
   names |-> << <<"Z","o","o","m"," ","V","i","d","e","o">>, <<"E","r","i","c"," ","Y","u","a","n">> >>,
   exactOnly |-> << <<"Z","o","o","m">> >>],
  [key |-> "DOCU", ticker |-> "DOCU",
   names |-> << <<"D","o","c","u","S","i","g","n">> >>,
   exactOnly |-> << >>],
  [key |-> "TWLO", ticker |-> "TWLO",
   names |-> << <<"T","w","i","l","i","o">> >>,
   exactOnly |-> << >>],
  [key |-> "U", ticker |-> "U",
   names |-> << <<"U","n","i","t","y"," ","S","o","f","t","w","a","r","e">>,
               <<"U","n","i","t","y"," ","E","n","g","i","n","e">> >>,
   exactOnly |-> << >>],
  [key |-> "SHOP", ticker |-> "SHOP",
   names |-> << <<"S","h","o","p","i","f","y">>, <<"T","o","b","i"," ","L","u","t","k","e">> >>,
   exactOnly |-> << >>],
  [key |-> "BABA", ticker |-> "BABA",
   names |-> << <<"A","l","i","b","a","b","a">>, <<"J","a","c","k"," ","M","a">>, <<"T","a","o","b","a","o">>,
               <<"T","m","a","l","l">>, <<"A","l","i","E","x","p","r","e","s","s">> >>,
   exactOnly |-> << >>],
  [key |-> "JD", ticker |-> "JD",
   names |-> << <<"J","D",".","c","o","m">>, <<"J","i","n","g","D","o","n","g">> >>,
   exactOnly |-> << >>],
  [key |-> "PDD", ticker |-> "PDD",
   names |-> << <<"P","i","n","d","u","o","d","u","o">>, <<"T","e","m","u">> >>,
   exactOnly |-> << >>],
  [key |-> "MELI", ticker |-> "MELI",
   names |-> << <<"M","e","r","c","a","d","o","L","i","b","r","e">>,
               <<"M","e","r","c","a","d","o"," ","L","i","b","r","e">> >>,
   exactOnly |-> << >>],
  [key |-> "SE", ticker |-> "SE",
   names |-> << <<"S","e","a"," ","L","i","m","i","t","e","d">>, <<"S","h","o","p","e","e">>,
               <<"G","a","r","e","n","a">> >>,
   exactOnly |-> << >>],
  [key |-> "WMT", ticker |-> "WMT",
   names |-> << <<"W","a","l","m","a","r","t">>, <<"D","o","u","g"," ","M","c","M","i","l","l","o","n">> >>,
   exactOnly |-> << >>],
  [key |-> "TGT", ticker |-> "TGT",
   names |-> << <<"T","a","r","g","e","t"," ","C","o","r","p","o","r","a","t","i","o","n">> >>,
   exactOnly |-> << <<"T","a","r","g","e","t">> >>],
  [key |-> "COST", ticker |-> "COST",
   names |-> << <<"C","o","s","t","c","o">> >>,
   exactOnly |-> << >>],
  [key |-> "HD", ticker |-> "HD",
   names |-> << <<"H","o","m","e"," ","D","e","p","o","t">> >>,
   exactOnly |-> << >>],
  [key |-> "LOW", ticker |-> "LOW",
   names |-> << <<"L","o","w","e","'","s">>, <<"L","o","w","e","s">> >>,
   exactOnly |-> << >>],
  [key |-> "ABNB", ticker |-> "ABNB",
   names |-> << <<"A","i","r","b","n","b">>, <<"B","r","i","a","n"," ","C","h","e","s","k","y">> >>,
   exactOnly |-> << >>],
  [key |-> "BKNG", ticker |-> "BKNG",
   names |-> << <<"B","o","o","k","i","n","g",".","c","o","m">>,
               <<"B","o","o","k","i","n","g"," ","H","o","l","d","i","n","g","s">>,
               <<"P","r","i","c","e","l","i","n","e">> >>,
   exactOnly |-> << >>],
  [key |-> "UBER", ticker |-> "UBER",
   names |-> << <<"U","b","e","r">>, <<"D","a","r","a"," ","K","h","o","s","r","o","w","s","h","a","h","i">>,
               <<"U","b","e","r"," ","E","a","t","s">> >>,
   exactOnly |-> << >>],
  [key |-> "LYFT", ticker |-> "LYFT",
   names |-> << <<"L","y","f","t">> >>,
   exactOnly |-> << >>],
  [key |-> "DASH", ticker |-> "DASH",
   names |-> << <<"D","o","o","r","D","a","s","h">>, <<"T","o","n","y"," ","X","u">> >>,
   exactOnly |-> << >>],
  [key |-> "BA", ticker |-> "BA",
   names |-> << <<"B","o","e","i","n","g">>, <<"D","a","v","e"," ","C","a","l","h","o","u","n">>,
               <<"7","3","7"," ","M","A","X">>, <<"7","8","7"," ","D","r","e","a","m","l","i","n","e","r">> >>,
   exactOnly |-> << >>],
  [key |-> "LMT", ticker |-> "LMT",
   names |-> << <<"L","o","c","k","h","e","e","d"," ","M","a","r","t","i","n">>,
               <<"L","o","c","k","h","e","e","d">>, <<"F","-","3","5">>, <<"F","-","2","2">> >>,
   exactOnly |-> << >>],
  [key |-> "RTX", ticker |-> "RTX",
   names |-> << <<"R","a","y","t","h","e","o","n">>,
               <<"R","T","X"," ","C","o","r","p","o","r","a","t","i","o","n">>,
               <<"P","r","a","t","t"," ","&"," ","W","h","i","t","n","e","y">> >>,
   exactOnly |-> << >>],
  [key |-> "NOC", ticker |-> "NOC",
   names |-> << <<"N","o","r","t","h","r","o","p"," ","G","r","u","m","m","a","n">>,
               <<"B","-","2","1"," ","R","a","i","d","e","r">> >>,
   exactOnly |-> << >>],
  [key |-> "GD", ticker |-> "GD",
   names |-> << <<"G","e","n","e","r","a","l"," ","D","y","n","a","m","i","c","s">>,
               <<"G","u","l","f","s","t","r","e","a","m">> >>,
   exactOnly |-> << >>],
  [key |-> "JPM", ticker |-> "JPM",
   names |-> << <<"J","P","M","o","r","g","a","n">>, <<"J","P"," ","M","o","r","g","a","n">>,
               <<"J","a","m","i","e"," ","D","i","m","o","n">>, <<"C","h","a","s","e">> >>,
   exactOnly |-> << >>],
  [key |-> "GS", ticker |-> "GS",
   names |-> << <<"G","o","l","d","m","a","n"," ","S","a","c","h","s">>,
               <<"D","a","v","i","d"," ","S","o","l","o","m","o","n">> >>,
   exactOnly |-> << >>],
  [key |-> "MS", ticker |-> "MS",
   names |-> << <<"M","o","r","g","a","n"," ","S","t","a","n","l","e","y">>,
               <<"J","a","m","e","s"," ","G","o","r","m","a","n">> >>,
   exactOnly |-> << >>],
  [key |-> "BAC", ticker |-> "BAC",
   names |-> << <<"B","a","n","k"," ","o","f"," ","A","m","e","r","i","c","a">>, <<"B","o","f","A">>,
               <<"B","r","i","a","n"," ","M","o","y","n","i","h","a","n">> >>,
   exactOnly |-> << >>],
  [key |-> "C", ticker |-> "C",
   names |-> << <<"C","i","t","i","g","r","o","u","p">>, <<"C","i","t","i">>,
               <<"C","i","t","i","b","a","n","k">>, <<"J","a","n","e"," ","F","r","a","s","e","r">> >>,
   exactOnly |-> << >>],
  [key |-> "WFC", ticker |-> "WFC",
   names |-> << <<"W","e","l","l","s"," ","F","a","r","g","o">>,
               <<"C","h","a","r","l","i","e"," ","S","c","h","a","r","f">> >>,
   exactOnly |-> << >>],
  [key |-> "BRK", ticker |-> "BRK.B",
   names |-> << <<"B","e","r","k","s","h","i","r","e"," ","H","a","t","h","a","w","a","y">>,
               <<"W","a","r","r","e","n"," ","B","u","f","f","e","t","t">>, <<"B","u","f","f","e","t","t">>,
               <<"C","h","a","r","l","i","e"," ","M","u","n","g","e","r">> >>,
   exactOnly |-> << >>],
  [key |-> "V", ticker |-> "V",
   names |-> << <<"V","i","s","a">> >>,
   exactOnly |-> << >>],
  [key |-> "MA", ticker |-> "MA",
   names |-> << <<"M","a","s","t","e","r","c","a","r","d">> >>,
   exactOnly |-> << >>],
  [key |-> "AXP", ticker |-> "AXP",
   names |-> << <<"A","m","e","r","i","c","a","n"," ","E","x","p","r","e","s","s">>, <<"A","m","e","x">> >>,
   exactOnly |-> << >>],
  [key |-> "BLK", ticker |-> "BLK",
   names |-> << <<"B","l","a","c","k","R","o","c","k">>, <<"L","a","r","r","y"," ","F","i","n","k">> >>,
   exactOnly |-> << >>],
  [key |-> "PFE", ticker |-> "PFE",
   names |-> << <<"P","f","i","z","e","r">>, <<"A","l","b","e","r","t"," ","B","o","u","r","l","a">> >>,
   exactOnly |-> << >>],
  [key |-> "MRNA", ticker |-> "MRNA",
   names |-> << <<"M","o","d","e","r","n","a">>,
               <<"S","t","é","p","h","a","n","e"," ","B","a","n","c","e","l">> >>,
   exactOnly |-> << >>],
  [key |-> "BNTX", ticker |-> "BNTX",
   names |-> << <<"B","i","o","N","T","e","c","h">> >>,
   exactOnly |-> << >>],
  [key |-> "JNJ", ticker |-> "JNJ",
   names |-> << <<"J","o","h","n","s","o","n"," ","&"," ","J","o","h","n","s","o","n">>,
               <<"J","o","h","n","s","o","n"," ","a","n","d"," ","J","o","h","n","s","o","n">>,
               <<"J","&","J">> >>,
   exactOnly |-> << >>],
  [key |-> "UNH", ticker |-> "UNH",
   names |-> << <<"U","n","i","t","e","d","H","e","a","l","t","h">>,
               <<"U","n","i","t","e","d"," ","H","e","a","l","t","h","c","a","r","e">> >>,
   exactOnly |-> << >>],
  [key |-> "LLY", ticker |-> "LLY",
   names |-> << <<"E","l","i"," ","L","i","l","l","y">>, <<"M","o","u","n","j","a","r","o">>,
               <<"Z","e","p","b","o","u","n","d">> >>,
   exactOnly |-> << >>],
  [key |-> "NVO", ticker |-> "NVO",
   names |-> << <<"N","o","v","o"," ","N","o","r","d","i","s","k">>, <<"O","z","e","m","p","i","c">>,
               <<"W","e","g","o","v","y">> >>,
   exactOnly |-> << >>],
  [key |-> "ABBV", ticker |-> "ABBV",
   names |-> << <<"A","b","b","V","i","e">>, <<"H","u","m","i","r","a">> >>,
   exactOnly |-> << >>],
  [key |-> "MRK", ticker |-> "MRK",
   names |-> << <<"M","e","r","c","k">>, <<"K","e","y","t","r","u","d","a">> >>,
   exactOnly |-> << >>],
  [key |-> "BMY", ticker |-> "BMY",
   names |-> << <<"B","r","i","s","t","o","l","-","M","y","e","r","s"," ","S","q","u","i","b","b">>,
               <<"B","r","i","s","t","o","l"," ","M","y","e","r","s">> >>,
   exactOnly |-> << >>],
  [key |-> "XOM", ticker |-> "XOM",
   names |-> << <<"E","x","x","o","n">>, <<"E","x","x","o","n","M","o","b","i","l">>,
               <<"E","x","x","o","n"," ","M","o","b","i","l">> >>,
   exactOnly |-> << >>],
  [key |-> "CVX", ticker |-> "CVX",
   names |-> << <<"C","h","e","v","r","o","n">> >>,
   exactOnly |-> << >>],
  [key |-> "COP", ticker |-> "COP",
   names |-> << <<"C","o","n","o","c","o","P","h","i","l","l","i","p","s">> >>,
   exactOnly |-> << >>],
  [key |-> "OXY", ticker |-> "OXY",
   names |-> << <<"O","c","c","i","d","e","n","t","a","l"," ","P","e","t","r","o","l","e","u","m">>,
               <<"O","c","c","i","d","e","n","t","a","l">> >>,
   exactOnly |-> << >>],
  [key |-> "SLB", ticker |-> "SLB",
   names |-> << <<"S","c","h","l","u","m","b","e","r","g","e","r">> >>,
   exactOnly |-> << >>],
  [key |-> "KO", ticker |-> "KO",
   names |-> << <<"C","o","c","a","-","C","o","l","a">>, <<"C","o","c","a"," ","C","o","l","a">>,
               <<"C","o","k","e">> >>,
   exactOnly |-> << >>],
  [key |-> "PEP", ticker |-> "PEP",
   names |-> << <<"P","e","p","s","i">>, <<"P","e","p","s","i","C","o">>,
               <<"F","r","i","t","o","-","L","a","y">>, <<"G","a","t","o","r","a","d","e">> >>,
   exactOnly |-> << >>],
  [key |-> "NKE", ticker |-> "NKE",
   names |-> << <<"N","i","k","e">>, <<"J","o","r","d","a","n"," ","B","r","a","n","d">>,
               <<"P","h","i","l"," ","K","n","i","g","h","t">> >>,
   exactOnly |-> << >>],
  [key |-> "SBUX", ticker |-> "SBUX",
   names |-> << <<"S","t","a","r","b","u","c","k","s">>,
               <<"H","o","w","a","r","d"," ","S","c","h","u","l","t","z">> >>,
   exactOnly |-> << >>],
  [key |-> "MCD", ticker |-> "MCD",
   names |-> << <<"M","c","D","o","n","a","l","d","'","s">>, <<"M","c","D","o","n","a","l","d","s">>,
               <<"B","i","g"," ","M","a","c">> >>,
   exactOnly |-> << >>],
  [key |-> "CMG", ticker |-> "CMG",
   names |-> << <<"C","h","i","p","o","t","l","e">>,
               <<"C","h","i","p","o","t","l","e"," ","M","e","x","i","c","a","n"," ","G","r","i","l","l">> >>,
   exactOnly |-> << >>],
  [key |-> "LULU", ticker |-> "LULU",
   names |-> << <<"L","u","l","u","l","e","m","o","n">> >>,
   exactOnly |-> << >>],
  [key |-> "T", ticker |-> "T",
   names |-> << <<"A","T","&","T">>, <<"A","T","T">> >>,
   exactOnly |-> << >>],
  [key |-> "VZ", ticker |-> "VZ",
   names |-> << <<"V","e","r","i","z","o","n">> >>,
   exactOnly |-> << >>],
  [key |-> "TMUS", ticker |-> "TMUS",
   names |-> << <<"T","-","M","o","b","i","l","e">>, <<"T","M","o","b","i","l","e">> >>,
   exactOnly |-> << >>],
  [key |-> "AI", ticker |-> "AI",
   names |-> << <<"C","3",".","a","i">>, <<"C","3"," ","A","I">> >>,
   exactOnly |-> << >>],
  [key |-> "UPST", ticker |-> "UPST",
   names |-> << <<"U","p","s","t","a","r","t">> >>,
   exactOnly |-> << >>],
  [key |-> "PATH", ticker |-> "PATH",
   names |-> << <<"U","i","P","a","t","h">> >>,
   exactOnly |-> << >>],
  [key |-> "IBM", ticker |-> "IBM",
   names |-> << <<"I","B","M">>, <<"A","r","v","i","n","d"," ","K","r","i","s","h","n","a">>,
               <<"R","e","d"," ","H","a","t">> >>,
   exactOnly |-> << >>],
  [key |-> "HPQ", ticker |-> "HPQ",
   names |-> << <<"H","P">>, <<"H","e","w","l","e","t","t","-","P","a","c","k","a","r","d">> >>,
   exactOnly |-> << >>],
  [key |-> "DELL", ticker |-> "DELL",
   names |-> << <<"D","e","l","l">>, <<"M","i","c","h","a","e","l"," ","D","e","l","l">> >>,
   exactOnly |-> << >>],
  [key |-> "ROKU", ticker |-> "ROKU",
   names |-> << <<"R","o","k","u">>, <<"A","n","t","h","o","n","y"," ","W","o","o","d">> >>,
   exactOnly |-> << >>],
  [key |-> "BIDU", ticker |-> "BIDU",
   names |-> << <<"B","a","i","d","u">>, <<"R","o","b","i","n"," ","L","i">> >>,
   exactOnly |-> << >>],
  [key |-> "NTES", ticker |-> "NTES",
   names |-> << <<"N","e","t","E","a","s","e">> >>,
   exactOnly |-> << >>],
  [key |-> "TME", ticker |-> "TME",
   names |-> << <<"T","e","n","c","e","n","t"," ","M","u","s","i","c">> >>,
   exactOnly |-> << >>],
  [key |-> "BILI", ticker |-> "BILI",
   names |-> << <<"B","i","l","i","b","i","l","i">> >>,
   exactOnly |-> << >>],
  [key |-> "DIDI", ticker |-> "DIDI",
   names |-> << <<"D","i","D","i">>, <<"D","i","d","i"," ","G","l","o","b","a","l">>,
               <<"D","i","d","i"," ","C","h","u","x","i","n","g">> >>,
   exactOnly |-> << >>],
  [key |-> "GME", ticker |-> "GME",
   names |-> << <<"G","a","m","e","S","t","o","p">>, <<"R","y","a","n"," ","C","o","h","e","n">>,
               <<"R","o","a","r","i","n","g"," ","K","i","t","t","y">>,
               <<"K","e","i","t","h"," ","G","i","l","l">> >>,
   exactOnly |-> << >>],
  [key |-> "AMC", ticker |-> "AMC",
   names |-> << <<"A","M","C"," ","E","n","t","e","r","t","a","i","n","m","e","n","t">>,
               <<"A","d","a","m"," ","A","r","o","n">>, <<"A","M","C"," ","T","h","e","a","t","r","e","s">> >>,
   exactOnly |-> << >>],
  [key |-> "BBBY", ticker |-> "BBBY",
   names |-> << <<"B","e","d"," ","B","a","t","h"," ","&"," ","B","e","y","o","n","d">>,
               <<"B","e","d"," ","B","a","t","h"," ","a","n","d"," ","B","e","y","o","n","d">> >>,
   exactOnly |-> << >>]
  >>

(* TOPIC_KEYWORDS: order matters, first match wins. *)
TOPIC_KEYWORDS ==
  <<
  [topic |-> "regulatory",
   keywords |-> << <<"t","a","r","i","f","f">>, <<"b","a","n">>, <<"i","l","l","e","g","a","l">>,
                  <<"r","e","g","u","l","a","t","i","o","n">>, <<"l","a","w">>,
                  <<"l","e","g","i","s","l","a","t","i","o","n">>, <<"c","o","n","g","r","e","s","s">>,
                  <<"s","e","n","a","t","e">>, <<"b","i","l","l">>, <<"a","c","t">>,
                  <<"a","n","t","i","t","r","u","s","t">>, <<"f","t","c">>, <<"s","e","c">>, <<"d","o","j">>,
                  <<"s","a","n","c","t","i","o","n">>, <<"i","m","p","o","r","t">>, <<"e","x","p","o","r","t">>,
                  <<"t","r","a","d","e"," ","w","a","r">>, <<"t","r","a","d","e"," ","d","e","a","l">>,
                  <<"c","u","s","t","o","m","s">>, <<"d","u","t","y">>, <<"q","u","o","t","a">> >>],
  [topic |-> "safety_incident",
   keywords |-> << <<"e","m","e","r","g","e","n","c","y">>, <<"c","r","a","s","h">>,
                  <<"a","c","c","i","d","e","n","t">>, <<"i","n","c","i","d","e","n","t">>,
                  <<"d","i","s","a","s","t","e","r">>, <<"e","x","p","l","o","s","i","o","n">>,
                  <<"f","i","r","e">>, <<"d","e","a","t","h">>, <<"i","n","j","u","r","y">>,
                  <<"r","e","c","a","l","l">>, <<"d","e","f","e","c","t">>,
                  <<"m","a","l","f","u","n","c","t","i","o","n">>, <<"g","r","o","u","n","d","e","d">>,
                  <<"l","a","n","d","i","n","g">>, <<"c","o","l","l","i","s","i","o","n">>,
                  <<"d","e","r","a","i","l">> >>],
  [topic |-> "legal",
   keywords |-> << <<"l","a","w","s","u","i","t">>, <<"s","u","e">>, <<"c","o","u","r","t">>,
                  <<"j","u","d","g","e">>, <<"t","r","i","a","l">>, <<"v","e","r","d","i","c","t">>,
                  <<"s","e","t","t","l","e","m","e","n","t">>, <<"i","n","d","i","c","t","m","e","n","t">>,
                  <<"a","r","r","e","s","t">>, <<"g","u","i","l","t","y">>,
                  <<"c","o","n","v","i","c","t","e","d">>, <<"a","p","p","e","a","l">>,
                  <<"r","u","l","i","n","g">>, <<"p","r","i","s","o","n">>, <<"j","a","i","l">>,
                  <<"f","i","n","e">>, <<"p","e","n","a","l","t","y">>, <<"c","h","a","r","g","e">>,
                  <<"a","l","l","e","g","a","t","i","o","n">> >>],
  [topic |-> "geopolitical",
   keywords |-> << <<"w","a","r">>, <<"i","n","v","a","s","i","o","n">>, <<"m","i","l","i","t","a","r","y">>,
                  <<"c","e","a","s","e","f","i","r","e">>, <<"p","e","a","c","e">>,
                  <<"c","o","n","f","l","i","c","t">>, <<"n","a","t","o">>, <<"u","k","r","a","i","n","e">>,
                  <<"r","u","s","s","i","a">>, <<"c","h","i","n","a">>, <<"t","a","i","w","a","n">>,
                  <<"i","s","r","a","e","l">>, <<"i","r","a","n">>, <<"m","i","s","s","i","l","e">>,
                  <<"n","u","c","l","e","a","r">>, <<"t","r","o","o","p","s">>,
                  <<"i","n","t","e","r","v","e","n","t","i","o","n">>, <<"s","a","n","c","t","i","o","n","s">> >>],
  [topic |-> "election",
   keywords |-> << <<"e","l","e","c","t","i","o","n">>, <<"v","o","t","e">>, <<"b","a","l","l","o","t">>,
                  <<"p","o","l","l">>, <<"c","a","n","d","i","d","a","t","e">>,
                  <<"p","r","e","s","i","d","e","n","t">>, <<"g","o","v","e","r","n","o","r">>,
                  <<"s","e","n","a","t","o","r">>, <<"c","o","n","g","r","e","s","s">>,
                  <<"d","e","m","o","c","r","a","t">>, <<"r","e","p","u","b","l","i","c","a","n">>,
                  <<"p","r","i","m","a","r","y">>, <<"n","o","m","i","n","e","e">>,
                  <<"c","a","m","p","a","i","g","n">>, <<"e","l","e","c","t","o","r","a","l">> >>],
  [topic |-> "product_launch",
   keywords |-> << <<"l","a","u","n","c","h">>, <<"r","e","l","e","a","s","e">>, <<"u","n","v","e","i","l">>,
                  <<"a","n","n","o","u","n","c","e">>, <<"d","e","b","u","t">>, <<"r","o","l","l","o","u","t">>,
                  <<"p","r","e","v","i","e","w">>, <<"r","e","v","e","a","l">>,
                  <<"i","n","t","r","o","d","u","c","e">>, <<"s","h","i","p">>,
                  <<"a","v","a","i","l","a","b","l","e">>, <<"b","e","t","a">>, <<"u","p","d","a","t","e">>,
                  <<"v","e","r","s","i","o","n">> >>],
  [topic |-> "executive",
   keywords |-> << <<"c","e","o">>, <<"c","t","o">>, <<"c","f","o">>, <<"e","x","e","c","u","t","i","v","e">>,
                  <<"f","o","u","n","d","e","r">>, <<"c","h","a","i","r","m","a","n">>, <<"b","o","a","r","d">>,
                  <<"r","e","s","i","g","n">>, <<"f","i","r","e","d">>, <<"h","i","r","e","d">>,
                  <<"s","t","e","p"," ","d","o","w","n">>, <<"a","p","p","o","i","n","t","m","e","n","t">> >>],
  [topic |-> "social_media",
   keywords |-> << <<"t","w","e","e","t">>, <<"p","o","s","t">>, <<"i","n","s","t","a","g","r","a","m">>,
                  <<"t","i","k","t","o","k">>, <<"y","o","u","t","u","b","e">>,
                  <<"f","a","c","e","b","o","o","k">>, <<"t","w","i","t","t","e","r">>, <<"x",".","c","o","m">>,
                  <<"f","o","l","l","o","w">>, <<"u","n","f","o","l","l","o","w">>, <<"v","i","r","a","l">>,
                  <<"t","r","e","n","d","i","n","g">>, <<"a","c","c","o","u","n","t">>,
                  <<"p","r","o","f","i","l","e">> >>],
  [topic |-> "crypto",
   keywords |-> << <<"b","i","t","c","o","i","n">>, <<"e","t","h","e","r","e","u","m">>,
                  <<"c","r","y","p","t","o">>, <<"b","l","o","c","k","c","h","a","i","n">>,
                  <<"t","o","k","e","n">>, <<"n","f","t">>, <<"d","e","f","i">>,
                  <<"e","x","c","h","a","n","g","e">>, <<"w","a","l","l","e","t">>, <<"m","i","n","i","n","g">>,
                  <<"h","a","l","v","i","n","g">>, <<"e","t","f">>, <<"c","o","i","n","b","a","s","e">>,
                  <<"b","i","n","a","n","c","e">>, <<"s","o","l","a","n","a">>,
                  <<"d","o","g","e","c","o","i","n">>, <<"m","e","m","e","c","o","i","n">> >>],
  [topic |-> "ai_tech",
   keywords |-> << <<"a","i">>,
                  <<"a","r","t","i","f","i","c","i","a","l"," ","i","n","t","e","l","l","i","g","e","n","c","e">>,
                  <<"m","a","c","h","i","n","e"," ","l","e","a","r","n","i","n","g">>,
                  <<"c","h","a","t","g","p","t">>, <<"g","p","t">>, <<"o","p","e","n","a","i">>,
                  <<"g","e","m","i","n","i">>, <<"c","l","a","u","d","e">>, <<"l","l","m">>,
                  <<"n","e","u","r","a","l">>, <<"m","o","d","e","l">>, <<"t","r","a","i","n","i","n","g">>,
                  <<"i","n","f","e","r","e","n","c","e">>, <<"c","h","i","p">>, <<"g","p","u">>,
                  <<"n","v","i","d","i","a">>, <<"s","e","m","i","c","o","n","d","u","c","t","o","r">> >>],
  [topic |-> "financial",
   keywords |-> << <<"e","a","r","n","i","n","g","s">>, <<"r","e","v","e","n","u","e">>,
                  <<"p","r","o","f","i","t">>, <<"l","o","s","s">>, <<"i","p","o">>, <<"s","t","o","c","k">>,
                  <<"s","h","a","r","e">>, <<"d","i","v","i","d","e","n","d">>, <<"b","u","y","b","a","c","k">>,
                  <<"m","a","r","k","e","t"," ","c","a","p">>, <<"v","a","l","u","a","t","i","o","n">>,
                  <<"f","u","n","d","i","n","g">>, <<"r","o","u","n","d">>,
                  <<"i","n","v","e","s","t","m","e","n","t">>, <<"a","c","q","u","i","s","i","t","i","o","n">>,
                  <<"m","e","r","g","e","r">>, <<"b","a","n","k","r","u","p","t","c","y">>, <<"d","e","b","t">> >>],
  [topic |-> "entertainment",
   keywords |-> << <<"m","o","v","i","e">>, <<"f","i","l","m">>, <<"b","o","x"," ","o","f","f","i","c","e">>,
                  <<"a","l","b","u","m">>, <<"s","o","n","g">>, <<"c","o","n","c","e","r","t">>,
                  <<"a","w","a","r","d">>, <<"g","r","a","m","m","y">>, <<"o","s","c","a","r">>,
                  <<"e","m","m","y">>, <<"c","e","l","e","b","r","i","t","y">>, <<"s","t","a","r">>,
                  <<"a","c","t","o","r">>, <<"a","c","t","r","e","s","s">>, <<"s","p","o","r","t","s">>,
                  <<"n","b","a">>, <<"n","f","l">>, <<"m","l","b">>,
                  <<"c","h","a","m","p","i","o","n","s","h","i","p">>,
                  <<"s","u","p","e","r"," ","b","o","w","l">> >>]
  >>

TOPIC_STOCK_MAPPINGS ==
     "regulatory" :> [stocks |-> << "META", "GOOGL", "AMZN", "AAPL", "MSFT", "NVDA", "TSLA" >>,
       reason |-> "Regulatory changes impact large tech and market leaders"]
  @@ "safety_incident" :> [stocks |-> << "BA", "LMT", "RTX", "GD", "NOC", "AAL", "UAL", "DAL" >>,
       reason |-> "Safety incidents affect aerospace and defense sector"]
  @@ "legal" :> [stocks |-> << "META", "GOOGL", "AMZN", "AAPL", "MSFT", "TSLA" >>,
       reason |-> "Legal matters frequently involve major tech companies"]
  @@ "geopolitical" :> [stocks |-> << "LMT", "RTX", "NOC", "GD", "BA", "XOM", "CVX", "OXY", "TSM", "INTC" >>,
       reason |-> "Geopolitical events affect defense, energy, and semiconductor supply chains"]
  @@ "election" :> [stocks |-> << "SPY", "QQQ", "DIA", "TSLA", "META", "GOOGL", "XOM", "CVX" >>,
       reason |-> "Elections impact market sentiment and specific policy-sensitive sectors"]
  @@ "product_launch" :> [stocks |-> << "AAPL", "GOOGL", "MSFT", "META", "NVDA", "AMD", "TSLA" >>,
       reason |-> "Product launches drive tech sector movements"]
  @@ "executive" :> [stocks |-> << "TSLA", "META", "AAPL", "MSFT", "GOOGL", "AMZN" >>,
       reason |-> "Executive changes affect major companies"]
  @@ "social_media" :> [stocks |-> << "META", "SNAP", "PINS", "RDDT", "GOOGL", "TWTR" >>,
       reason |-> "Social media events impact the sector"]
  @@ "crypto" :> [stocks |-> << "COIN", "MSTR", "MARA", "RIOT", "SQ", "HOOD", "PYPL" >>,
       reason |-> "Crypto events affect crypto-related equities"]
  @@ "ai_tech" :> [stocks |-> << "NVDA", "AMD", "GOOGL", "MSFT", "META", "AMZN", "TSM", "AVGO", "INTC" >>,
       reason |-> "AI developments impact the semiconductor and tech sector"]
  @@ "financial" :> [stocks |-> << "JPM", "BAC", "GS", "MS", "C", "WFC", "BRK.B", "V", "MA" >>,
       reason |-> "Financial events affect banking and payment sectors"]
  @@ "entertainment" :> [stocks |-> << "DIS", "NFLX", "WBD", "PARA", "CMCSA", "SPOT" >>,
       reason |-> "Entertainment events impact media companies"]
  @@ "other" :> [stocks |-> << >>,
       reason |-> "General market event"]

(* HIGH_IMPACT_KEYWORDS: keywords that should always match to certain stocks. *)
HIGH_IMPACT_KEYWORDS ==
  <<
  [keywords |-> << <<"t","r","u","m","p">>, <<"b","i","d","e","n">>,
                  <<"w","h","i","t","e"," ","h","o","u","s","e">>, <<"p","r","e","s","i","d","e","n","t">>,
                  <<"p","o","t","u","s">> >>,
   stocks |-> << "SPY", "QQQ", "TSLA", "META", "XOM", "LMT" >>,
   reason |-> "Presidential politics affects broad market"],
  [keywords |-> << <<"f","e","d">>, <<"i","n","t","e","r","e","s","t"," ","r","a","t","e">>,
                  <<"p","o","w","e","l","l">>, <<"f","o","m","c">>,
                  <<"f","e","d","e","r","a","l"," ","r","e","s","e","r","v","e">> >>,
   stocks |-> << "SPY", "QQQ", "JPM", "BAC", "GS", "AAPL", "MSFT" >>,
   reason |-> "Fed policy affects all markets"],
  [keywords |-> << <<"c","h","i","n","a">>, <<"c","h","i","n","e","s","e">>, <<"b","e","i","j","i","n","g">>,
                  <<"c","c","p">> >>,
   stocks |-> << "TSM", "AAPL", "NVDA", "NIO", "BABA", "JD", "PDD" >>,
   reason |-> "China-related events affect supply chains and Chinese equities"],
  [keywords |-> << <<"t","i","k","t","o","k">>, <<"b","y","t","e","d","a","n","c","e">> >>,
   stocks |-> << "META", "SNAP", "GOOGL", "PINS" >>,
   reason |-> "TikTok events benefit competitors"],
  [keywords |-> << <<"u","k","r","a","i","n","e">>, <<"r","u","s","s","i","a">>, <<"p","u","t","i","n">>,
                  <<"z","e","l","e","n","s","k","y">>, <<"n","a","t","o">>, <<"w","a","r">> >>,
   stocks |-> << "LMT", "RTX", "NOC", "GD", "BA", "XOM", "CVX", "HAL" >>,
   reason |-> "Ukraine conflict affects defense and energy"],
  [keywords |-> << <<"t","a","i","w","a","n">>, <<"t","s","m","c">>, <<"c","h","i","p">>,
                  <<"s","e","m","i","c","o","n","d","u","c","t","o","r">> >>,
   stocks |-> << "TSM", "NVDA", "AMD", "INTC", "AVGO", "QCOM", "ASML", "MU" >>,
   reason |-> "Taiwan/chip events affect semiconductor sector"],
  [keywords |-> << <<"b","i","t","c","o","i","n">>, <<"b","t","c">>, <<"c","r","y","p","t","o">>,
                  <<"e","t","h","e","r","e","u","m">>, <<"e","t","h">> >>,
   stocks |-> << "COIN", "MSTR", "MARA", "RIOT", "SQ", "HOOD" >>,
   reason |-> "Crypto price movements affect crypto stocks"],
  [keywords |-> << <<"o","p","e","n","a","i">>, <<"c","h","a","t","g","p","t">>, <<"g","p","t","-","4">>,
                  <<"g","p","t","-","5">>, <<"a","i"," ","m","o","d","e","l">>,
                  <<"l","a","r","g","e"," ","l","a","n","g","u","a","g","e">> >>,
   stocks |-> << "MSFT", "NVDA", "GOOGL", "META", "AMD" >>,
   reason |-> "AI developments affect tech and chip stocks"],
  [keywords |-> << <<"a","p","p","l","e">>, <<"i","p","h","o","n","e">>, <<"i","p","a","d">>,
                  <<"t","i","m"," ","c","o","o","k">>, <<"w","w","d","c">> >>,
   stocks |-> << "AAPL", "QCOM", "TSM", "AVGO" >>,
   reason |-> "Apple events affect supply chain"],
  [keywords |-> << <<"e","l","o","n">>, <<"m","u","s","k">>, <<"s","p","a","c","e","x">>,
                  <<"s","t","a","r","l","i","n","k">>, <<"n","e","u","r","a","l","i","n","k">> >>,
   stocks |-> << "TSLA", "TWTR" >>,
   reason |-> "Musk activities affect his companies"],
  [keywords |-> << <<"z","u","c","k","e","r","b","e","r","g">>, <<"m","e","t","a">>,
                  <<"f","a","c","e","b","o","o","k">>, <<"i","n","s","t","a","g","r","a","m">>,
                  <<"w","h","a","t","s","a","p","p">>, <<"t","h","r","e","a","d","s">> >>,
   stocks |-> << "META", "SNAP", "PINS" >>,
   reason |-> "Meta events affect social media sector"]
  >>

(***************************************************************************)
(* isValidMatch: word-boundary test and false-positive patterns            *)
(***************************************************************************)

S_intel == <<"i","n","t","e","l">>
S_intelligence == <<"i","n","t","e","l","l","i","g","e","n","c","e">>
S_block == <<"b","l","o","c","k">>
S_blocked == <<"b","l","o","c","k","e","d">>
S_blockchain == <<"b","l","o","c","k","c","h","a","i","n">>
S_ford == <<"f","o","r","d">>
S_afford == <<"a","f","f","o","r","d">>
S_stanford == <<"s","t","a","n","f","o","r","d">>
S_meta == <<"m","e","t","a">>
S_metadata == <<"m","e","t","a","d","a","t","a">>

\* isValidMatch without the test of the character after the match
isValidMatch_noAfter(text, matchWord, startIndex) ==
  LET textLower  == toLowerCase(text)
      charBefore == IF startIndex > 0 THEN textLower[startIndex] ELSE " "
  IN  charBefore \notin LowerLetters

isValidMatch(text, matchWord, startIndex) ==
  LET textLower  == toLowerCase(text)
      matchLower == toLowerCase(matchWord)
      charBefore == IF startIndex > 0 THEN textLower[startIndex] ELSE " "
      charAfter  == IF startIndex + Len(matchLower) < Len(textLower)
                    THEN textLower[startIndex + Len(matchLower) + 1] ELSE " "
      isWordBoundaryBefore == charBefore \notin LowerLetters
      isWordBoundaryAfter  == charAfter \notin LowerLetters
      surroundingText ==
        slice(textLower, max(0, startIndex - 20),
              min(Len(textLower), startIndex + Len(matchLower) + 20))
  IN  IF ~isWordBoundaryBefore \/ ~isWordBoundaryAfter THEN FALSE
      ELSE IF matchLower = S_intel /\ includes(surroundingText, S_intelligence) THEN FALSE
      ELSE IF matchLower = S_block /\ (includes(surroundingText, S_blocked)
                                       \/ includes(surroundingText, S_blockchain)) THEN FALSE
      ELSE IF matchLower = S_ford /\ (includes(surroundingText, S_afford)
                                      \/ includes(surroundingText, S_stanford)) THEN FALSE
      ELSE IF matchLower = S_meta /\ includes(surroundingText, S_metadata) THEN FALSE
      ELSE TRUE

(***************************************************************************)
(* extractTopic: the topic of the first TOPIC_KEYWORDS entry with a        *)
(* keyword in the text                                                     *)
(***************************************************************************)

\* the inner loop of extractTopic: some keyword of the entry is in the text
HasKeyword(text, keywords) ==
  \E k \in 1..Len(keywords) : includes(text, toLowerCase(keywords[k]))

RECURSIVE TopicFrom(_, _)
TopicFrom(text, i) ==
  IF i > Len(TOPIC_KEYWORDS) THEN "other"
  ELSE IF HasKeyword(text, TOPIC_KEYWORDS[i].keywords) THEN TOPIC_KEYWORDS[i].topic
  ELSE TopicFrom(text, i + 1)

\* extractTopic with the last matching entry winning instead of the first
RECURSIVE TopicFromLast(_, _)
TopicFromLast(text, i) ==
  IF i < 1 THEN "other"
  ELSE IF HasKeyword(text, TOPIC_KEYWORDS[i].keywords) THEN TOPIC_KEYWORDS[i].topic
  ELSE TopicFromLast(text, i - 1)

extractTopic_lastWins(title, description) ==
  TopicFromLast(toLowerCase(Spaced(title, description)), Len(TOPIC_KEYWORDS))

extractTopic(title, description) ==
  TopicFrom(toLowerCase(Spaced(title, description)), 1)

(***************************************************************************)
(* matchEventToStocks                                                      *)
(***************************************************************************)

\* Push without matchedTickers.add(ticker)
Push_noAdd(st, ticker, companyName, kind, detail) ==
  [matches |-> Append(st.matches,
                 [ticker |-> ticker, companyName |-> companyName,
                  matchReason |-> [kind |-> kind, detail |-> detail]]),
   matchedTickers |-> st.matchedTickers]

\* matches.push({ticker, companyName, matchReason}); matchedTickers.add(ticker)
Push(st, ticker, companyName, kind, detail) ==
  [matches |-> Append(st.matches,
                 [ticker |-> ticker, companyName |-> companyName,
                  matchReason |-> [kind |-> kind, detail |-> detail]]),
   matchedTickers |-> st.matchedTickers \cup {ticker}]

\* the two tests made for one word: the title first, then the description;
\* t holds the locals title, desc, titleLower and descLower
Accepted(word, t) ==
  LET wordLower == toLowerCase(word)
      titleIdx  == indexOf(t.titleLower, wordLower)
      descIdx   == indexOf(t.descLower, wordLower)
      title     == t.title
      desc      == t.desc
  IN  \/ titleIdx # -1 /\ isValidMatch(title, word, titleIdx)
      \/ descIdx # -1 /\ isValidMatch(desc, word, descIdx)

\* the exactOnly loop: the first accepted word, as an index, or 0
FirstExact(exactOnly, t) ==
  LET ok == {k \in 1..Len(exactOnly) : Accepted(exactOnly[k], t)}
  IN  IF ok = {} THEN 0 ELSE CHOOSE k \in ok : \A j \in ok : k <= j

\* the names loop: names shorter than 3 are skipped
FirstName(names, t) ==
  LET ok == {k \in 1..Len(names) :
               Len(names[k]) >= 3 /\ Accepted(names[k], t)}
  IN  IF ok = {} THEN 0 ELSE CHOOSE k \in ok : \A j \in ok : k <= j

\* one iteration of the phase 1 loop over Object.entries(COMPANY_MAPPINGS):
\* the word the entry is matched by (an exactOnly word first), or << >>
MatchWord(c, t) ==
  LET e == FirstExact(c.exactOnly, t)
  IN  IF e # 0 THEN c.exactOnly[e]
      ELSE LET n == FirstName(c.names, t)
           IN  IF n # 0 THEN c.names[n] ELSE << >>

\* the phase 1 loop, over the entries that are matched (the others push
\* nothing), in the order of the table
RECURSIVE PushDirect(_, _, _)
PushDirect(st, hits, t) ==
  IF hits = {} THEN st
  ELSE LET i == CHOOSE k \in hits : \A j \in hits : k <= j
           c == COMPANY_MAPPINGS[i]
           w == MatchWord(c, t)
       IN  PushDirect(Push(st, c.key, w, "Direct mention", w), hits \ {i}, t)

Phase1(st, t) ==
  PushDirect(st, {i \in 1..Len(COMPANY_MAPPINGS) :
                    MatchWord(COMPANY_MAPPINGS[i], t) # << >>}, t)

\* the loop over the stocks of a high-impact group
RECURSIVE AddStocks(_, _, _, _, _)
AddStocks(st, stocks, i, keyword, reason) ==
  IF i > Len(stocks) THEN st
  ELSE AddStocks(IF stocks[i] \notin st.matchedTickers
                 THEN Push(st, stocks[i], keyword, "Keyword correlation", reason)
                 ELSE st,
                 stocks, i + 1, keyword, reason)

\* MatchGroup under the "few matches" condition of phase 3
MatchGroup_ifFew(st, group, fullText) ==
  LET hit == {k \in 1..Len(group.keywords) :
                includes(fullText, toLowerCase(group.keywords[k]))}
  IN  IF hit = {} \/ Len(st.matches) >= 3 THEN st
      ELSE AddStocks(st, group.stocks, 1,
                     group.keywords[CHOOSE k \in hit : \A j \in hit : k <= j],
                     group.reason)

\* one iteration of the phase 2 loop: only the first keyword of a group counts
MatchGroup(st, group, fullText) ==
  LET hit == {k \in 1..Len(group.keywords) :
                includes(fullText, toLowerCase(group.keywords[k]))}
  IN  IF hit = {} THEN st
      ELSE AddStocks(st, group.stocks, 1,
                     group.keywords[CHOOSE k \in hit : \A j \in hit : k <= j],
                     group.reason)

RECURSIVE Phase2(_, _, _)
Phase2(st, g, fullText) ==
  IF g > Len(HIGH_IMPACT_KEYWORDS) THEN st
  ELSE Phase2(MatchGroup(st, HIGH_IMPACT_KEYWORDS[g], fullText), g + 1, fullText)

\* the loop of phase 3: up to 3 sector stocks not matched yet
RECURSIVE AddSector(_, _, _, _, _, _)
AddSector(st, stocks, i, added, topic, reason) ==
  IF i > Len(stocks) THEN st
  ELSE IF stocks[i] \notin st.matchedTickers /\ added < 3
       THEN AddSector(Push(st, stocks[i], topic, "Sector correlation", reason),
                      stocks, i + 1, added + 1, topic, reason)
       ELSE AddSector(st, stocks, i + 1, added, topic, reason)

Phase3(st, topic) ==
  IF Len(st.matches) < 3 /\ topic # "other"
  THEN LET topicMapping == TOPIC_STOCK_MAPPINGS[topic]
       IN  IF Len(topicMapping.stocks) > 0
           THEN AddSector(st, topicMapping.stocks, 1, 0, topic, topicMapping.reason)
           ELSE st
  ELSE st

\* the locals title, desc, titleLower, descLower of matchEventToStocks
Locals(ev) ==
  [title |-> ev.title, desc |-> ev.description,
   titleLower |-> toLowerCase(ev.title), descLower |-> toLowerCase(ev.description)]

matchEventToStocks(ev) ==
  LET t        == Locals(ev)
      fullText == Spaced(t.titleLower, t.descLower)
      p1 == Phase1([matches |-> << >>, matchedTickers |-> {}], t)
      p2 == Phase2(p1, 1, fullText)
  IN  Phase3(p2, ev.topic).matches


(***************************************************************************)
(* Inputs: titles of up to MaxTitleWords words, descriptions of one word   *)
(***************************************************************************)

MaxTitleWords == 2

\* the first word of a title
FirstWords ==
  << <<"M","e","t","a">>, <<"m","e","t","a","d","a","t","a">>, <<"l","a","w","s","u","i","t">>,
     <<"Z","o","o","m">>, <<"z","o","o","m","i","n","g">>, <<"I","n","t","e","l">>,
     <<"i","n","t","e","l","l","i","g","e","n","c","e">>, <<"F","o","r","d">>,
     <<"a","f","f","o","r","d">>, <<"T","r","u","m","p">>, <<"T","e","s","l","a">>,
     <<"c","o","u","r","t">>, <<"c","r","a","s","h">>, <<"w","a","r">>, <<"v","o","t","e">>,
     <<"l","a","u","n","c","h">>, <<"C","E","O">>, <<"t","w","e","e","t">>,
     <<"b","i","t","c","o","i","n">>, <<"G","P","U">>, <<"e","a","r","n","i","n","g","s">>,
     <<"m","o","v","i","e">>, <<"t","a","r","i","f","f">>, <<"h","e","l","l","o">>,
     <<"A","P","P","L","E">> >>

\* the words that may follow it
MoreWords ==
  << <<"Z","o","o","m">>, <<"M","e","t","a">>, <<"F","o","r","d">>, <<"c","o","u","r","t">>,
     <<"T","e","s","l","a">>, <<"m","e","t","a","d","a","t","a">> >>

\* the descriptions; an event without one has the empty description
Descriptions ==
  << << >>, <<"Z","o","o","m">>, <<"T","r","u","m","p">>, <<"c","r","a","s","h">> >>

RECURSIVE TitlesOf(_)
TitlesOf(n) ==
  IF n <= 1 THEN Range(FirstWords)
  ELSE LET shorter == TitlesOf(n - 1)
       IN  shorter \cup {Spaced(t, w) : t \in shorter, w \in Range(MoreWords)}

Titles == TitlesOf(MaxTitleWords)

(***************************************************************************)
(* The matching pipeline for one event: fetchResolvedEvents assigns the    *)
(* topic when it builds the event, main then calls matchEventToStocks.     *)
(***************************************************************************)

NoTopic == "(unset)"

InitMatch ==
  /\ pc = "input"
  /\ event \in {[title |-> t, description |-> d, topic |-> NoTopic] :
                   t \in Titles, d \in Range(Descriptions)}
  /\ matches = << >>
  /\ fpc = "idle" /\ offset = 0 /\ hasMore = FALSE /\ allEvents = << >>
  /\ InsightIdle
  /\ MainIdle
  /\ GroqIdle
  /\ HedgeIdle
  /\ RouteIdle

\* const topic = extractTopic(event.title || '', event.description || '')
AssignTopic ==
  /\ pc = "input"
  /\ event' = [event EXCEPT !.topic = extractTopic(event.title, event.description)]
  /\ pc' = "topic"
  /\ UNCHANGED <<matches, fetchVars, insightVars, mainVars, groqVars, hedgeVars, routeVars>>

\* const stockMatches = matchEventToStocks(event)
MatchStocks ==
  /\ pc = "topic"
  /\ matches' = matchEventToStocks(event)
  /\ pc' = "matched"
  /\ UNCHANGED <<event, fetchVars, insightVars, mainVars, groqVars, hedgeVars, routeVars>>

NextMatch == AssignTopic \/ MatchStocks

SpecMatch == InitMatch /\ [][NextMatch]_vars

(***************************************************************************)
(* fetchResolvedEvents and the start of main                               *)
(*                                                                         *)
(* Time is counted in months.  A date field of an API event is absent, a   *)
(* string that Date cannot parse, or a date.  A price is a number, NaN, a  *)
(* numeric string or another string; numbers are counted in hundredths     *)
(* (0.95 is 95).  The counters used only for logging are left out.         *)
(***************************************************************************)

\* const today = new Date(), the month of the run
today == 60

\* main calls fetchResolvedEvents(3)
yearsBack == 3

\* const limit = 100
limit == 100

\* cutoffDate.setFullYear(cutoffDate.getFullYear() - yearsBack)
cutoffDate == today - 12 * yearsBack

Absent      == [kind |-> "absent", month |-> 0]
Garbage     == [kind |-> "garbage", month |-> 0]
DateOf(m)   == [kind |-> "date", month |-> m]

Null        == [t |-> "null", v |-> 0]
NaN         == [t |-> "NaN", v |-> 0]
Number(n)   == [t |-> "number", v |-> n]
NumStr(n)   == [t |-> "string", v |-> n]
Text        == [t |-> "text", v |-> 0]

\* Number(x) of Array.prototype.map(Number)
ToNumber(x) ==
  IF x.t = "string" THEN Number(x.v)
  ELSE IF x.t = "text" THEN NaN
  ELSE x

\* x > 0.95 and x < 0.05, with the operand converted to a number first;
\* every comparison with NaN is false
GreaterThan95(x) == ToNumber(x).t = "number" /\ ToNumber(x).v > 95
LessThan5(x)     == ToNumber(x).t = "number" /\ ToNumber(x).v < 5

\* const dateStr = event.endDate || event.resolutionDate || ''
DateStr(ev) ==
  IF ev.endDate.kind # "absent" THEN ev.endDate
  ELSE IF ev.resolutionDate.kind # "absent" THEN ev.resolutionDate
  ELSE Absent

\* the tests that skip an event: no date, an unparsable date, a future date,
\* a date before the cutoff
Skipped(ev) ==
  LET dateStr == DateStr(ev)
  IN  \/ dateStr.kind = "absent"
      \/ dateStr.kind = "garbage"
      \/ dateStr.month > today
      \/ dateStr.month < cutoffDate

\* JSON.parse(prices) gives null, and the read of parsedPrices.length throws
\* a TypeError
ParseGivesNull(prices) == prices.kind = "string" /\ prices.json = "null"

\* parsedPrices of the first market where that read does not throw: the
\* parsed list, or << >> when nothing can be parsed (a parsed number has no
\* length, and the test parsedPrices.length >= 1 fails as for << >>)
ParsedPrices(prices) ==
  IF prices.kind = "string"
  THEN IF prices.json = "array" THEN prices.elems ELSE << >>
  ELSE IF prices.kind = "array"
  THEN [i \in 1..Len(prices.elems) |-> ToNumber(prices.elems[i])]
  ELSE << >>

\* the event has a first market with truthy outcomePrices
HasPrices(ev) ==
  /\ ev.markets.kind = "array"
  /\ Len(ev.markets.list) > 0
  /\ ev.markets.list[1].outcomePrices.kind # "absent"

\* the body of the loop over a page throws for this event
Throws(ev) ==
  /\ ~Skipped(ev)
  /\ HasPrices(ev)
  /\ ParseGivesNull(ev.markets.list[1].outcomePrices)

\* let finalProbability = null; ... finalProbability = parsedPrices[0]
FinalProbability(ev) ==
  IF HasPrices(ev)
  THEN LET parsedPrices == ParsedPrices(ev.markets.list[1].outcomePrices)
       IN  IF Len(parsedPrices) >= 1 THEN parsedPrices[1] ELSE Null
  ELSE Null

\* Outcome with the thresholds 0.95 and 0.05 included
Outcome_inclusive(ev) ==
  IF HasPrices(ev)
  THEN LET parsedPrices == ParsedPrices(ev.markets.list[1].outcomePrices)
       IN  IF Len(parsedPrices) >= 1
           THEN IF ToNumber(parsedPrices[1]).t = "number" /\ ToNumber(parsedPrices[1]).v >= 95
                THEN "YES"
                ELSE IF ToNumber(parsedPrices[1]).t = "number" /\ ToNumber(parsedPrices[1]).v <= 5
                THEN "NO"
                ELSE "UNKNOWN"
           ELSE "UNKNOWN"
  ELSE "UNKNOWN"

\* let outcome = 'UNKNOWN'; ... if (finalProbability > 0.95) outcome = 'YES'
Outcome(ev) ==
  IF HasPrices(ev)
  THEN LET parsedPrices == ParsedPrices(ev.markets.list[1].outcomePrices)
       IN  IF Len(parsedPrices) >= 1
           THEN IF GreaterThan95(parsedPrices[1]) THEN "YES"
                ELSE IF LessThan5(parsedPrices[1]) THEN "NO"
                ELSE "UNKNOWN"
           ELSE "UNKNOWN"
  ELSE "UNKNOWN"

\* event.title || '' and event.description || ''
OrEmpty(field) == IF field.present THEN field.text ELSE << >>

\* allEvents.push({eventId, title, slug, description, resolutionDate,
\* outcome, finalProbability, topic}); raw keeps the API event it was built of
ResolvedEvent(ev) ==
  [eventId |-> ev.id,
   title |-> OrEmpty(ev.title),
   description |-> OrEmpty(ev.description),
   resolutionDate |-> DateStr(ev),
   outcome |-> Outcome(ev),
   finalProbability |-> FinalProbability(ev),
   topic |-> extractTopic(OrEmpty(ev.title), OrEmpty(ev.description)),
   raw |-> ev]

Kept(ev) == ~Skipped(ev)

\* the loop over the events of a page: the events pushed before the loop
\* ends or throws
Pushed(data) ==
  LET throwing == {i \in 1..Len(data) : Throws(data[i])}
      stop     == IF throwing = {} THEN Len(data) + 1
                  ELSE CHOOSE i \in throwing : \A j \in throwing : i <= j
      kept     == SelectSeq(SubSeq(data, 1, stop - 1), Kept)
  IN  [i \in 1..Len(kept) |-> ResolvedEvent(kept[i])]

PageThrows(data) == \E i \in 1..Len(data) : Throws(data[i])

(***************************************************************************)
(* The replies of the Gamma API                                            *)
(***************************************************************************)

\* the number of page requests the API answers with a full page
MaxPages == 2

NoText      == [present |-> FALSE, text |-> << >>]
TextOf(t)   == [present |-> TRUE, text |-> t]

NoPrices    == [kind |-> "absent", json |-> "", elems |-> << >>]
OtherPrices == [kind |-> "other", json |-> "", elems |-> << >>]
JsonPrices(json, elems) == [kind |-> "string", json |-> json, elems |-> elems]
ArrayPrices(elems)      == [kind |-> "array", json |-> "", elems |-> elems]

NoMarkets       == [kind |-> "absent", list |-> << >>]
NotArrayMarkets == [kind |-> "notArray", list |-> << >>]
Markets(list)   == [kind |-> "array", list |-> list]
Market(prices)  == [outcomePrices |-> prices]

S_war   == <<"w","a","r">>
S_hello == <<"H","e","l","l","o">>
S_crash == <<"c","r","a","s","h">>

\* an event that ended last month and resolved to YES
BaseEvent ==
  [id |-> "base", title |-> TextOf(S_war), description |-> NoText,
   endDate |-> DateOf(today - 1), resolutionDate |-> Absent,
   markets |-> Markets(<< Market(JsonPrices("array", <<NumStr(100), NumStr(0)>>)) >>)]

WithDates(id, endDate, resolutionDate) ==
  [BaseEvent EXCEPT !.id = id, !.endDate = endDate, !.resolutionDate = resolutionDate]

WithMarkets(id, markets) == [BaseEvent EXCEPT !.id = id, !.markets = markets]

WithPrices(id, prices) == WithMarkets(id, Markets(<< Market(prices) >>))

WithText(id, title, description) ==
  [BaseEvent EXCEPT !.id = id, !.title = title, !.description = description]

Dateless    == WithDates("no date", Absent, Absent)
OneYearOld  == WithDates("one year old", DateOf(today - 12), Absent)
NullPrices  == WithPrices("prices 'null'", JsonPrices("null", << >>))

DateVariants ==
  { Dateless,
    OneYearOld,
    WithDates("unparsable date", Garbage, Absent),
    WithDates("unparsable endDate", Garbage, DateOf(today - 1)),
    WithDates("resolutionDate only", Absent, DateOf(today - 2)),
    WithDates("future", DateOf(today + 1), Absent),
    WithDates("now", DateOf(today), Absent),
    WithDates("six months old", DateOf(today - 6), Absent),
    WithDates("seven months old", DateOf(today - 7), Absent),
    WithDates("at the cutoff", DateOf(cutoffDate), Absent),
    WithDates("before the cutoff", DateOf(cutoffDate - 1), DateOf(today - 1)) }

MarketVariants ==
  { NullPrices,
    WithMarkets("no markets", NoMarkets),
    WithMarkets("markets not an array", NotArrayMarkets),
    WithMarkets("markets empty", Markets(<< >>)),
    WithMarkets("second market only",
                Markets(<< Market(NoPrices), Market(ArrayPrices(<<Number(100)>>)) >>)),
    WithMarkets("second market differs",
                Markets(<< Market(ArrayPrices(<<Number(0), Number(100)>>)),
                           Market(ArrayPrices(<<Number(100), Number(0)>>)) >>)),
    WithPrices("no prices", NoPrices),
    WithPrices("prices an object", OtherPrices),
    WithPrices("prices not JSON", JsonPrices("invalid", << >>)),
    WithPrices("prices a JSON number", JsonPrices("number", << >>)),
    WithPrices("prices '[]'", JsonPrices("array", << >>)),
    WithPrices("prices '[\"0\",\"1\"]'", JsonPrices("array", <<NumStr(0), NumStr(100)>>)),
    WithPrices("prices '[0.96]'", JsonPrices("array", <<Number(96)>>)),
    WithPrices("prices '[0.95,0.05]'", JsonPrices("array", <<Number(95), Number(5)>>)),
    WithPrices("prices '[0.05,0.95]'", JsonPrices("array", <<Number(5), Number(95)>>)),
    WithPrices("prices '[0.04]'", JsonPrices("array", <<Number(4)>>)),
    WithPrices("prices '[\"n/a\"]'", JsonPrices("array", <<Text>>)),
    WithPrices("prices []", ArrayPrices(<< >>)),
    WithPrices("prices [0.5,1]", ArrayPrices(<<Number(50), Number(100)>>)),
    WithPrices("prices [\"0.99\"]", ArrayPrices(<<NumStr(99)>>)),
    WithPrices("prices [\"0.01\"]", ArrayPrices(<<NumStr(1)>>)),
    WithPrices("prices [\"n/a\",1]", ArrayPrices(<<Text, Number(100)>>)) }

TextVariants ==
  { BaseEvent,
    WithText("no title", NoText, NoText),
    WithText("no keyword", TextOf(S_hello), NoText),
    WithText("described", TextOf(S_hello), TextOf(S_crash)) }

RawEvents == DateVariants \cup MarketVariants \cup TextVariants

\* the events of the pages that hold two events of interest
CoreEvents == {BaseEvent, OneYearOld, NullPrices}

\* a page shorter than limit: the last page of the listing
ShortPages ==
  {<<e>> : e \in RawEvents} \cup {<<a, b>> : a \in CoreEvents, b \in CoreEvents}

\* a page of limit events: the given ones, then events without a date
FullPage(head) == [i \in 1..limit |-> IF i <= Len(head) THEN head[i] ELSE Dateless]

FullPages ==
  {FullPage(head) : head \in {<< >>, <<BaseEvent>>, <<OneYearOld, BaseEvent>>,
                              <<BaseEvent, NullPrices>>}}

\* the pages the API may send for the request at the given offset
PagesAt(off) == IF off < MaxPages * limit THEN ShortPages \cup FullPages ELSE ShortPages

(***************************************************************************)
(* The loop of fetchResolvedEvents, one action per page request, and the   *)
(* test main makes on its result                                           *)
(***************************************************************************)

InitBackfill ==
  /\ fpc = "fetching"
  /\ offset = 0
  /\ hasMore = TRUE
  /\ allEvents = << >>
  /\ pc = "idle" /\ event = << >> /\ matches = << >>
  /\ InsightIdle
  /\ MainIdle
  /\ GroqIdle
  /\ HedgeIdle
  /\ RouteIdle

\* if (!response.ok) { break; }
FetchNotOk ==
  /\ fpc = "fetching"
  /\ fpc' = "fetched"
  /\ UNCHANGED <<offset, hasMore, allEvents, matchVars, insightVars, mainVars, groqVars, hedgeVars, routeVars>>

\* a catch clause that drops the events collected so far
FetchThrows_discard ==
  /\ fpc = "fetching"
  /\ hasMore' = FALSE
  /\ allEvents' = << >>
  /\ fpc' = "fetched"
  /\ UNCHANGED <<offset, matchVars, insightVars, mainVars, groqVars, hedgeVars, routeVars>>

\* fetch or response.json() throws: catch (error) { hasMore = false; }
FetchThrows ==
  /\ fpc = "fetching"
  /\ hasMore' = FALSE
  /\ fpc' = "fetched"
  /\ UNCHANGED <<offset, allEvents, matchVars, insightVars, mainVars, groqVars, hedgeVars, routeVars>>

\* if (!Array.isArray(data) || data.length === 0) { hasMore = false; break; }
FetchNoData ==
  /\ fpc = "fetching"
  /\ hasMore' = FALSE
  /\ fpc' = "fetched"
  /\ UNCHANGED <<offset, allEvents, matchVars, insightVars, mainVars, groqVars, hedgeVars, routeVars>>

\* a page of events: the loop over the page, then offset += limit and the
\* stop test, or the catch clause when the loop over the page throws
FetchPage(data) ==
  /\ fpc = "fetching"
  /\ allEvents' = allEvents \o Pushed(data)
  /\ IF PageThrows(data)
     THEN /\ hasMore' = FALSE
          /\ offset' = offset
     ELSE /\ offset' = offset + limit
          /\ hasMore' = ~(offset' > 10000 \/ Len(allEvents') > 500 \/ Len(data) < limit)
  /\ fpc' = IF hasMore' THEN "fetching" ELSE "fetched"
  /\ UNCHANGED <<matchVars, insightVars, mainVars, groqVars, hedgeVars, routeVars>>

\* if (events.length === 0) { return; }
MainNoEvents ==
  /\ fpc = "fetched"
  /\ Len(allEvents) = 0
  /\ fpc' = "exited"
  /\ UNCHANGED <<offset, hasMore, allEvents, matchVars, insightVars, mainVars, groqVars, hedgeVars, routeVars>>

\* main goes on to step 2 with the events
MainHasEvents ==
  /\ fpc = "fetched"
  /\ Len(allEvents) # 0
  /\ fpc' = "step2"
  /\ UNCHANGED <<offset, hasMore, allEvents, matchVars, insightVars, mainVars, groqVars, hedgeVars, routeVars>>

\* matchedPairs.push({event, matchedStocks, matchReason}); the reasons that
\* join('; ') puts in one string are kept as a list
EventStockPair(ev, stockMatches) ==
  [event |-> ev,
   matchedStocks |->
     [k \in 1..Len(stockMatches) |->
        [ticker |-> stockMatches[k].ticker,
         companyName |-> stockMatches[k].companyName,
         priceOnResolution |-> Null,
         resolutionDate |-> ev.resolutionDate]],
   matchReason |-> [k \in 1..Len(stockMatches) |-> stockMatches[k].matchReason]]

\* if (stockMatches.length > 0), said of the pair built of stockMatches
HasStockMatches(pair) == Len(pair.matchedStocks) > 0

\* const stockMatches = matchEventToStocks(event), for every event
PairsOfEvents(events) ==
  [i \in 1..Len(events) |-> EventStockPair(events[i], matchEventToStocks(events[i]))]

\* step 2 with the test on stockMatches.length left out
MatchedPairs_all(events) == PairsOfEvents(events)

\* step 2 of main: the loop over the events
MatchedPairs(events) == SelectSeq(PairsOfEvents(events), HasStockMatches)

\* the replies of fetchStockPrice to the request for stock k of pair i: a
\* number or null (the function catches every error)
PriceReplies ==
  {"none", "all", "first of each pair"}

PriceOf(reply, i, k) ==
  IF reply = "all" \/ (reply = "first of each pair" /\ k = 1)
  THEN Number(100 + k) ELSE Null

\* [Step 2/4] Matching events to stocks
MatchEvents ==
  /\ fpc = "step2"
  /\ matchedPairs' = MatchedPairs(allEvents)
  /\ fpc' = "step3"
  /\ UNCHANGED <<pricesFetched, file, offset, hasMore, allEvents, matchVars, insightVars,
                 groqVars, hedgeVars, routeVars>>

\* [Step 3/4] Fetching stock prices: the loop over the stocks of the pairs
FetchStockPrices(reply) ==
  /\ fpc = "step3"
  /\ matchedPairs' =
       [i \in 1..Len(matchedPairs) |->
          [matchedPairs[i] EXCEPT !.matchedStocks =
             [k \in 1..Len(@) |-> [@[k] EXCEPT !.priceOnResolution = PriceOf(reply, i, k)]]]]
  /\ pricesFetched' =
       Cardinality({ik \in {<<i, k>> : i \in 1..Len(matchedPairs), k \in 1..20} :
                      /\ ik[2] <= Len(matchedPairs[ik[1]].matchedStocks)
                      /\ PriceOf(reply, ik[1], ik[2]) # Null})
  /\ fpc' = "step4"
  /\ UNCHANGED <<file, offset, hasMore, allEvents, matchVars, insightVars, groqVars, hedgeVars, routeVars>>

\* [Step 4/4] fs.writeFileSync(outputPath, JSON.stringify(backfillData))
WriteFile ==
  /\ fpc = "step4"
  /\ file' = [written |-> TRUE,
              totalEvents |-> Len(allEvents),
              totalMatches |-> Len(matchedPairs),
              pairs |-> matchedPairs]
  /\ fpc' = "written"
  /\ UNCHANGED <<matchedPairs, pricesFetched, offset, hasMore, allEvents,
                 matchVars, insightVars, groqVars, hedgeVars, routeVars>>

NextBackfill ==
  \/ FetchNotOk
  \/ FetchThrows
  \/ FetchNoData
  \/ \E data \in PagesAt(offset) : FetchPage(data)
  \/ MainNoEvents
  \/ MainHasEvents
  \/ MatchEvents
  \/ \E reply \in PriceReplies : FetchStockPrices(reply)
  \/ WriteFile

SpecBackfill == InitBackfill /\ [][NextBackfill]_vars

(***************************************************************************)
(* lib/correlation-model.ts: callGroqWithFallback, one action per request  *)
(***************************************************************************)

\* All available Groq models - ordered by preference
GROQ_MODELS ==
  << "llama-3.1-8b-instant",
     "meta-llama/llama-4-scout-17b-16e-instruct",
     "qwen3-32b",
     "llama-3.3-70b-versatile",
     "meta-llama/llama-4-maverick-17b-128e-instruct",
     "gpt-oss-20b-128k",
     "gpt-oss-120b-128k",
     "gpt-oss-safeguard-20b",
     "kimi-k2-0905" >>

\* what a request may meet: fetch or response.json() throws, a status, and
\* for status 200 the value of data.choices?.[0]?.message?.content
GroqReplies ==
  {[kind |-> "throws"],
   [kind |-> "status", status |-> 429],
   [kind |-> "status", status |-> 400],
   [kind |-> "status", status |-> 500],
   [kind |-> "content", present |-> FALSE, text |-> ""],
   [kind |-> "content", present |-> TRUE, text |-> ""],
   [kind |-> "content", present |-> TRUE, text |-> "[3, 1]"],
   [kind |-> "content", present |-> TRUE, text |-> "none of them"]}

\* response.ok
Ok(status) == status \in 200..299

\* if (content): the request gave a non-empty content
Truthy(reply) == reply.kind = "content" /\ reply.present /\ reply.text # ""

\* the two callers: findSemanticMatches (maxTokens = 200 by default) and
\* generateGroqPrediction (100)
GroqRequests ==
  {[prompt |-> "similar bets", maxTokens |-> 200],
   [prompt |-> "prediction", maxTokens |-> 100]}

InitGroq ==
  /\ gpc = "calling"
  /\ request \in GroqRequests
  /\ tried = << >>
  /\ lastReply = [kind |-> "none"]
  /\ result = [isNull |-> TRUE, text |-> ""]
  /\ pc = "idle" /\ event = << >> /\ matches = << >>
  /\ fpc = "idle" /\ offset = 0 /\ hasMore = FALSE /\ allEvents = << >>
  /\ InsightIdle
  /\ MainIdle
  /\ HedgeIdle
  /\ RouteIdle

\* the body sent for the model that is next in the list
Body(model) == [model |-> model, max_tokens |-> request.maxTokens, prompt |-> request.prompt]

\* a loop that returns at the first model whatever it answers
TryModel_once(reply) ==
  /\ gpc = "calling"
  /\ Len(tried) < Len(GROQ_MODELS)
  /\ tried' = Append(tried, Body(GROQ_MODELS[Len(tried) + 1]))
  /\ lastReply' = reply
  /\ IF Truthy(reply)
     THEN /\ result' = [isNull |-> FALSE, text |-> reply.text]
          /\ gpc' = "returned"
     ELSE /\ result' = [isNull |-> TRUE, text |-> ""]
          /\ gpc' = "returned"
  /\ UNCHANGED <<request, matchVars, fetchVars, insightVars, mainVars, hedgeVars, routeVars>>

\* one iteration of for (const model of GROQ_MODELS): the request, then
\* continue (429, not ok, thrown error), return content, or the next model
TryModel(reply) ==
  /\ gpc = "calling"
  /\ Len(tried) < Len(GROQ_MODELS)
  /\ tried' = Append(tried, Body(GROQ_MODELS[Len(tried) + 1]))
  /\ lastReply' = reply
  /\ IF reply.kind = "throws" THEN UNCHANGED <<gpc, result>>
     ELSE IF reply.kind = "status" /\ reply.status = 429 THEN UNCHANGED <<gpc, result>>
     ELSE IF reply.kind = "status" /\ ~Ok(reply.status) THEN UNCHANGED <<gpc, result>>
     ELSE IF Truthy(reply)
          THEN /\ result' = [isNull |-> FALSE, text |-> reply.text]
               /\ gpc' = "returned"
          ELSE UNCHANGED <<gpc, result>>
  /\ UNCHANGED <<request, matchVars, fetchVars, insightVars, mainVars, hedgeVars, routeVars>>

\* console.error("All models exhausted"); return null
Exhausted ==
  /\ gpc = "calling"
  /\ Len(tried) = Len(GROQ_MODELS)
  /\ result' = [isNull |-> TRUE, text |-> ""]
  /\ gpc' = "returned"
  /\ UNCHANGED <<request, tried, lastReply, matchVars, fetchVars, insightVars, mainVars, hedgeVars, routeVars>>

NextGroq ==
  \/ \E reply \in GroqReplies : TryModel(reply)
  \/ Exhausted

SpecGroq == InitGroq /\ [][NextGroq]_vars

(***************************************************************************)
(* lib/grok.ts: tryModel and analyzeWithGroq, one action per model         *)
(***************************************************************************)

HEDGE_MODELS ==
  << "llama-3.3-70b-versatile",
     "meta-llama/llama-4-scout-17b-16e-instruct",
     "moonshotai/kimi-k2-instruct",
     "qwen/qwen3-32b",
     "llama-3.1-8b-instant" >>

\* a field of the parsed JSON that may be missing
Missing == [present |-> FALSE, text |-> ""]
Str(t)  == [present |-> TRUE, text |-> t]

\* an element of parsed.recommendations as the model wrote it
Rec(market, position, stocks) ==
  [market |-> market, position |-> position, outcome |-> Missing,
   affectedStocks |-> [isArray |-> TRUE, list |-> stocks]]

RecTariffs     == Rec(Str("US tariffs"), Str("YES"), <<"AAPL", "TSLA">>)
RecTariffsNVDA == Rec(Str("US tariffs"), Str("NO"), <<"NVDA">>)
RecAI          == [Rec(Str("AI regulation"), Str("NO"), <<"NVDA", "MSFT", "", "META">>)
                     EXCEPT !.outcome = Str("Before Q2")]
RecBare        == [market |-> Missing, position |-> Missing, outcome |-> Missing,
                   affectedStocks |-> [isArray |-> FALSE, list |-> << >>]]

\* the values of parsed.recommendations: missing, something that is not an
\* array (map is not a function), or an array
RecommendationLists ==
  {[kind |-> "missing", list |-> << >>],
   [kind |-> "notArray", list |-> << >>]}
  \cup {[kind |-> "array", list |-> l] :
          l \in {<< >>, <<RecTariffs>>, <<RecBare>>, <<RecTariffs, RecTariffsNVDA>>,
                 <<RecTariffsNVDA, RecAI>>, <<RecTariffsNVDA, RecTariffs, RecAI>>,
                 <<RecBare, RecTariffs, RecBare>>}}

\* what a call of tryModel may meet: fetch or response.json() throws, a
\* status, and for status 200 the content: none, without braces, braces
\* that JSON.parse rejects, or a JSON object
HedgeReplies ==
  {[kind |-> "throws"],
   [kind |-> "status", status |-> 429],
   [kind |-> "status", status |-> 400],
   [kind |-> "status", status |-> 404],
   [kind |-> "status", status |-> 500],
   [kind |-> "noContent"],
   [kind |-> "noBraces"],
   [kind |-> "badJson"]}
  \cup {[kind |-> "json", summary |-> sm, recommendations |-> rl] :
          sm \in {Missing, Str("Two hedges found")}, rl \in RecommendationLists}

\* rec.affectedStocks.map(String).filter(Boolean)
NonEmpty(t) == t # ""

\* the HedgeRecommendation built of an element of parsed.recommendations
Recommendation(rec) ==
  [market |-> IF rec.market.present THEN rec.market.text ELSE "",
   marketUrl |-> "",
   outcome |-> IF rec.outcome.present /\ rec.outcome.text # "" THEN rec.outcome.text
               ELSE IF rec.position.present /\ rec.position.text # "" THEN rec.position.text
               ELSE "Yes",
   position |-> IF rec.position.present /\ rec.position.text = "NO" THEN "NO" ELSE "YES",
   affectedStocks |-> IF rec.affectedStocks.isArray
                      THEN SelectSeq(rec.affectedStocks.list, NonEmpty)
                      ELSE << >>]

\* recommendations.sort((a, b) => b.affectedStocks.length - a.affectedStocks.length):
\* a stable sort, the recommendations with more stocks first
RECURSIVE SortByStocks(_)
SortByStocks(recs) ==
  IF Len(recs) = 0 THEN << >>
  ELSE LET most == CHOOSE i \in 1..Len(recs) :
                     /\ \A j \in 1..Len(recs) :
                          Len(recs[j].affectedStocks) <= Len(recs[i].affectedStocks)
                     /\ \A j \in 1..(i - 1) :
                          Len(recs[j].affectedStocks) < Len(recs[i].affectedStocks)
           rest == [k \in 1..(Len(recs) - 1) |-> IF k < most THEN recs[k] ELSE recs[k + 1]]
       IN  <<recs[most]>> \o SortByStocks(rest)

\* tryModel returns null: 429, 400, 404, and every error thrown in the try
\* block (another status, no content, no JSON, JSON.parse, map of a non-array)
ReturnsNull(reply) ==
  \/ reply.kind \in {"throws", "status", "noContent", "noBraces", "badJson"}
  \/ reply.kind = "json" /\ reply.recommendations.kind = "notArray"

\* the AnalysisResponse tryModel returns of a parsed JSON object
Response(reply) ==
  [summary |-> IF reply.summary.present /\ reply.summary.text # ""
               THEN reply.summary.text ELSE "Analysis complete.",
   recommendations |->
     SortByStocks([k \in 1..Len(reply.recommendations.list) |->
                     Recommendation(reply.recommendations.list[k])])]

Contexts == {"AAPL, TSLA | US tariffs", "NVDA, MSFT, META | AI regulation, US tariffs"}

InitHedge ==
  /\ apc = "calling"
  /\ context \in Contexts
  /\ called = << >>
  /\ answer = [kind |-> "none"]
  /\ analysis = [recommendations |-> << >>]
  /\ pc = "idle" /\ event = << >> /\ matches = << >>
  /\ fpc = "idle" /\ offset = 0 /\ hasMore = FALSE /\ allEvents = << >>
  /\ InsightIdle
  /\ MainIdle
  /\ GroqIdle
  /\ RouteIdle

\* analyzeWithGroq that gives up at the first model that fails
CallTryModel_abort(reply) ==
  /\ apc = "calling"
  /\ Len(called) < Len(HEDGE_MODELS)
  /\ called' = Append(called, HEDGE_MODELS[Len(called) + 1])
  /\ answer' = reply
  /\ IF ReturnsNull(reply)
     THEN /\ apc' = "thrown"
          /\ UNCHANGED analysis
     ELSE /\ analysis' = Response(reply)
          /\ apc' = "returned"
  /\ UNCHANGED <<context, matchVars, fetchVars, insightVars, mainVars, groqVars, routeVars>>

\* const result = await tryModel(model, context, apiKey); if (result) return result
CallTryModel(reply) ==
  /\ apc = "calling"
  /\ Len(called) < Len(HEDGE_MODELS)
  /\ called' = Append(called, HEDGE_MODELS[Len(called) + 1])
  /\ answer' = reply
  /\ IF ReturnsNull(reply)
     THEN UNCHANGED <<apc, analysis>>
     ELSE /\ analysis' = Response(reply)
          /\ apc' = "returned"
  /\ UNCHANGED <<context, matchVars, fetchVars, insightVars, mainVars, groqVars, routeVars>>

\* throw new Error("All models failed or rate limited. Please try again later.")
AllModelsFailed ==
  /\ apc = "calling"
  /\ Len(called) = Len(HEDGE_MODELS)
  /\ apc' = "thrown"
  /\ UNCHANGED <<context, called, answer, analysis,
                 matchVars, fetchVars, insightVars, mainVars, groqVars, routeVars>>

NextHedge ==
  \/ \E reply \in HedgeReplies : CallTryModel(reply)
  \/ AllModelsFailed

SpecHedge == InitHedge /\ [][NextHedge]_vars

(***************************************************************************)
(* app/api/correlation/route.ts: POST and GET                              *)
(***************************************************************************)

\* a field of the body: missing, or a JSON value
NoField    == [kind |-> "undefined", text |-> ""]
StrField(t) == [kind |-> "string", text |-> t]
NullField  == [kind |-> "null", text |-> ""]
ZeroField  == [kind |-> "number", text |-> "0"]
FiveField  == [kind |-> "number", text |-> "5"]
ListField  == [kind |-> "array", text |-> "AAPL,TSLA"]

\* !betTitle: undefined, null, 0 and the empty string are falsy
Falsy(field) ==
  \/ field.kind \in {"undefined", "null"}
  \/ field.kind = "number" /\ field.text = "0"
  \/ field.kind = "string" /\ field.text = ""

\* the bodies of POST requests: not JSON (request.json() throws), the JSON
\* null (the destructuring throws), a JSON number, or an object
PostBodies ==
  {[kind |-> "notJson"], [kind |-> "null"], [kind |-> "number"]}
  \cup {[kind |-> "object", betTitle |-> t, betDescription |-> d, affectedTickers |-> a] :
          t \in {NoField, NullField, ZeroField, FiveField, StrField(""),
                 StrField("Will tariffs rise?")},
          d \in {NoField, StrField("by July")},
          a \in {NoField, ListField}}

\* the value of searchParams.get("action") and of the other parameters
GetQueries ==
  {[action |-> a, title |-> t] :
     a \in {NoField, StrField(""), StrField("stats"), StrField("quick-match"),
            StrField("STATS"), StrField("delete")},
     t \in {NoField, StrField("Will tariffs rise?")}}

HttpRequests ==
  {[method |-> "POST", body |-> b] : b \in PostBodies}
  \cup {[method |-> "GET", query |-> q] : q \in GetQueries}

\* const { betTitle, betDescription, affectedTickers } = body
Destructured(body) ==
  IF body.kind = "object"
  THEN [betTitle |-> body.betTitle, betDescription |-> body.betDescription,
        affectedTickers |-> body.affectedTickers]
  ELSE [betTitle |-> NoField, betDescription |-> NoField, affectedTickers |-> NoField]

\* error instanceof Error ? error.message : fallback
ErrorMessage(err, fallback) == IF err.isError THEN err.message ELSE fallback

\* betTitle.slice(0, 50) of a betTitle that is not a string
NotAString ==
  [kind |-> "throws", isError |-> TRUE, message |-> "betTitle.slice is not a function",
   requests |-> 0]

\* what getCorrelationInsights does: it returns the insight after so many
\* calls of callGroqWithFallback, or it throws
Analyses ==
  {[kind |-> "insight", hasHistoricalData |-> FALSE, requests |-> 0],
   [kind |-> "insight", hasHistoricalData |-> FALSE, requests |-> 1],
   [kind |-> "insight", hasHistoricalData |-> TRUE, requests |-> 1],
   [kind |-> "insight", hasHistoricalData |-> TRUE, requests |-> 2],
   [kind |-> "throws", isError |-> TRUE, message |-> "fetch failed", requests |-> 1],
   [kind |-> "throws", isError |-> FALSE, message |-> "", requests |-> 0],
   NotAString}

\* what getResolutionStats does: it returns the stats, or it throws when
\* the data has no pairs
StatsResults ==
  {[kind |-> "stats"],
   [kind |-> "throws", isError |-> TRUE, message |-> "data.pairs is not iterable"]}

InitRoute ==
  /\ rpc = "received"
  /\ httpRequest \in HttpRequests
  /\ analysisStarted = FALSE
  /\ llmRequests = 0
  /\ error = [caught |-> FALSE]
  /\ response = [status |-> 0]
  /\ pc = "idle" /\ event = << >> /\ matches = << >>
  /\ fpc = "idle" /\ offset = 0 /\ hasMore = FALSE /\ allEvents = << >>
  /\ InsightIdle
  /\ MainIdle
  /\ GroqIdle
  /\ HedgeIdle

\* POST with a test that lets the empty string through
PostReceived_undefinedOnly ==
  /\ rpc = "received"
  /\ httpRequest.method = "POST"
  /\ IF httpRequest.body.kind \in {"notJson", "null"}
     THEN /\ error' = [caught |-> TRUE, isError |-> TRUE, message |-> "Unexpected token"]
          /\ response' = [status |-> 500,
                          error |-> ErrorMessage(error', "Correlation analysis failed")]
          /\ rpc' = "responded"
          /\ UNCHANGED analysisStarted
     ELSE IF Destructured(httpRequest.body).betTitle.kind = "undefined"
          THEN /\ response' = [status |-> 400, error |-> "betTitle is required"]
               /\ rpc' = "responded"
               /\ UNCHANGED <<analysisStarted, error>>
          ELSE /\ analysisStarted' = TRUE
               /\ rpc' = "analysing"
               /\ UNCHANGED <<error, response>>
  /\ UNCHANGED <<httpRequest, llmRequests,
                 matchVars, fetchVars, insightVars, mainVars, groqVars, hedgeVars>>

\* POST up to the call of getCorrelationInsights: request.json(), the
\* destructuring, and the test of betTitle
PostReceived ==
  /\ rpc = "received"
  /\ httpRequest.method = "POST"
  /\ IF httpRequest.body.kind \in {"notJson", "null"}
     THEN /\ error' = [caught |-> TRUE, isError |-> TRUE, message |-> "Unexpected token"]
          /\ response' = [status |-> 500,
                          error |-> ErrorMessage(error', "Correlation analysis failed")]
          /\ rpc' = "responded"
          /\ UNCHANGED analysisStarted
     ELSE IF Falsy(Destructured(httpRequest.body).betTitle)
          THEN /\ response' = [status |-> 400, error |-> "betTitle is required"]
               /\ rpc' = "responded"
               /\ UNCHANGED <<analysisStarted, error>>
          ELSE /\ analysisStarted' = TRUE
               /\ rpc' = "analysing"
               /\ UNCHANGED <<error, response>>
  /\ UNCHANGED <<httpRequest, llmRequests,
                 matchVars, fetchVars, insightVars, mainVars, groqVars, hedgeVars>>

\* POST after await getCorrelationInsights(...): the insights, or the catch
PostAnalysed(outcome) ==
  /\ rpc = "analysing"
  /\ (outcome = NotAString) <=> (httpRequest.body.betTitle.kind # "string")
  /\ llmRequests' = llmRequests + outcome.requests
  /\ IF outcome.kind = "throws"
     THEN /\ error' = [caught |-> TRUE, isError |-> outcome.isError, message |-> outcome.message]
          /\ response' = [status |-> 500,
                          error |-> ErrorMessage(error', "Correlation analysis failed")]
     ELSE /\ response' = [status |-> 200, error |-> "",
                          hasHistoricalData |-> outcome.hasHistoricalData]
          /\ UNCHANGED error
  /\ rpc' = "responded"
  /\ UNCHANGED <<httpRequest, analysisStarted,
                 matchVars, fetchVars, insightVars, mainVars, groqVars, hedgeVars>>

\* GET: the stats, the quick match, or the answer to another action
Get(stats) ==
  /\ rpc = "received"
  /\ httpRequest.method = "GET"
  /\ LET action == httpRequest.query.action
     IN  IF action = StrField("stats")
         THEN IF stats.kind = "throws"
              THEN /\ error' = [caught |-> TRUE, isError |-> stats.isError,
                                message |-> stats.message]
                   /\ response' = [status |-> 500,
                                   error |-> ErrorMessage(error', "Request failed")]
              ELSE /\ response' = [status |-> 200, error |-> ""]
                   /\ UNCHANGED error
         ELSE IF action = StrField("quick-match")
              THEN /\ response' = [status |-> 200, error |-> "", hasHistoricalData |-> FALSE]
                   /\ UNCHANGED error
              ELSE /\ response' = [status |-> 400,
                                   error |-> "Invalid action. Use 'stats' or 'quick-match'"]
                   /\ UNCHANGED error
  /\ rpc' = "responded"
  /\ UNCHANGED <<httpRequest, analysisStarted, llmRequests,
                 matchVars, fetchVars, insightVars, mainVars, groqVars, hedgeVars>>

NextRoute ==
  \/ PostReceived
  \/ \E outcome \in Analyses : PostAnalysed(outcome)
  \/ \E stats \in StatsResults : Get(stats)

SpecRoute == InitRoute /\ [][NextRoute]_vars

(***************************************************************************)
(* lib/correlation-model.ts: getAllHistoricalBets, findSemanticMatches and *)
(* findHistoricalMatchesAsync.  The similarity attached to a semantic      *)
(* match is dropped by findHistoricalMatchesAsync and is left out.         *)
(***************************************************************************)

\* String.prototype.toUpperCase
toUpperCase(s) ==
  [i \in 1..Len(s) |->
     IF \E u \in DOMAIN LowerOf : LowerOf[u] = s[i]
     THEN CHOOSE u \in DOMAIN LowerOf : LowerOf[u] = s[i]
     ELSE s[i]]

\* the words of text.split(/\s+/), as a set
Split(text) ==
  {SubSeq(text, p[1], p[2]) :
     p \in {q \in (1..Len(text)) \X (1..Len(text)) :
              /\ q[1] <= q[2]
              /\ \A k \in q[1]..q[2] : text[k] # " "
              /\ q[1] > 1 => text[q[1] - 1] = " "
              /\ q[2] < Len(text) => text[q[2] + 1] = " "}}

\* the number of events in data/resolutions.json
NumPairs == 10

S_Tariff == <<"T","a","r","i","f","f">>
S_AAPL   == <<"A","A","P","L">>
S_aapl   == <<"a","a","p","l">>
S_TSLA   == <<"T","S","L","A">>
S_MSFT   == <<"M","S","F","T">>
Suffixes == << "a", "b", "c", "d", "e", "f", "g", "h", "i", "j", "k", "l", "m", "n", "o", "p" >>

\* the i-th event of data/resolutions.json; the outcome is as the backfill
\* script writes it
Pair(i) ==
  [event |-> [title |-> Spaced(S_Tariff, <<Suffixes[i]>>),
              outcome |-> IF i % 3 = 1 THEN "YES" ELSE IF i % 3 = 2 THEN "NO" ELSE "UNKNOWN",
              resolutionDate |-> i],
   matchedStocks |->
     IF i = 1
     THEN << [ticker |-> S_AAPL, priceOnResolution |-> Null, resolutionDate |-> i],
             [ticker |-> S_TSLA, priceOnResolution |-> Number(250), resolutionDate |-> i] >>
     ELSE << [ticker |-> S_AAPL, priceOnResolution |-> Number(100 + i), resolutionDate |-> i] >>]

\* resolutionData.pairs: the second event is listed twice
resolutionPairs == <<Pair(1), Pair(2)>> \o [i \in 1..(NumPairs - 1) |-> Pair(i + 1)]

\* bets.push({title, outcome, ticker, price, date}) for the stocks of a pair
BetsOfPair(pair) ==
  [k \in 1..Len(pair.matchedStocks) |->
     [title |-> pair.event.title,
      outcome |-> pair.event.outcome,
      ticker |-> pair.matchedStocks[k].ticker,
      price |-> IF pair.matchedStocks[k].priceOnResolution = Null
                THEN Number(0) ELSE pair.matchedStocks[k].priceOnResolution,
      date |-> pair.matchedStocks[k].resolutionDate]]

RECURSIVE FlatBets(_)
FlatBets(n) == IF n = 0 THEN << >> ELSE FlatBets(n - 1) \o BetsOfPair(resolutionPairs[n])

\* const key = `${b.title}|${b.ticker}`
BetKey(b) == b.title \o <<"|">> \o b.ticker

getAllHistoricalBets ==
  LET bets == FlatBets(Len(resolutionPairs))
      FirstOfKey(i) == \A j \in 1..(i - 1) : BetKey(bets[j]) # BetKey(bets[i])
  IN  FilterIdx(bets, FirstOfKey)

\* historicalBets.filter(b => tickerSet.has(b.ticker.toUpperCase()))
RelevantBets(historicalBets, tickers) ==
  LET tickerSet == {toUpperCase(tickers[k]) : k \in 1..Len(tickers)}
      Relevant(i) == toUpperCase(historicalBets[i].ticker) \in tickerSet
  IN  FilterIdx(historicalBets, Relevant)

\* findSemanticMatches returns [] before any request is made
NoRequest(key, historicalBets, tickers) ==
  \/ ~key
  \/ Len(historicalBets) = 0
  \/ Len(RelevantBets(historicalBets, tickers)) = 0

\* indices.filter(i => i >= 1 && i <= relevantBets.length).map(idx => relevantBets[idx - 1])
ByIndices(relevantBets, indices) ==
  LET InRange(k) == indices[k] >= 1 /\ indices[k] <= Len(relevantBets)
      kept == FilterIdx(indices, InRange)
  IN  [k \in 1..Len(kept) |-> relevantBets[kept[k]]]

\* the keyword fallback: up to 10 bets whose title includes a word of the
\* current bet that is longer than 3
KeywordFallback(relevantBets, currentBet) ==
  LET betWords == {w \in Split(toLowerCase(currentBet)) : Len(w) > 3}
      Matches(i) == \E w \in betWords : includes(toLowerCase(relevantBets[i].title), w)
      keywordMatches == FilterIdx(relevantBets, Matches)
  IN  SubSeq(keywordMatches, 1, min(10, Len(keywordMatches)))

\* the part of findSemanticMatches after the reply of callGroqWithFallback
SemanticResults(reply, relevantBets, currentBet) ==
  IF reply.kind = "badArray" THEN << >>
  ELSE LET results == IF reply.kind = "indices"
                      THEN ByIndices(relevantBets, reply.indices) ELSE << >>
       IN  IF Len(results) = 0 THEN KeywordFallback(relevantBets, currentBet)
           ELSE results

\* Confidence based on match count
ConfidenceBoost_late(matchCount) ==
  IF matchCount >= 10 THEN 35
  ELSE IF matchCount >= 5 THEN 30
  ELSE IF matchCount > 3 THEN 25
  ELSE IF matchCount >= 1 THEN 15
  ELSE 0

\* let confidenceBoost = 0; if (matchCount >= 1) confidenceBoost = 15; ...
ConfidenceBoost(matchCount) ==
  LET b1 == IF matchCount >= 1 THEN 15 ELSE 0
      b2 == IF matchCount >= 3 THEN 25 ELSE b1
      b3 == IF matchCount >= 5 THEN 30 ELSE b2
  IN  IF matchCount >= 10 THEN 35 ELSE b3

\* the CorrelationInsight findHistoricalMatchesAsync builds of the matches
Insight(matched) ==
  LET matchedEvents ==
        [k \in 1..Len(matched) |->
           [title |-> matched[k].title, outcome |-> matched[k].outcome,
            ticker |-> matched[k].ticker, priceOnResolution |-> matched[k].price,
            resolutionDate |-> matched[k].date]]
      FirstOfTitle(i) == \A j \in 1..(i - 1) : matchedEvents[j].title # matchedEvents[i].title
      uniqueMatches == FilterIdx(matchedEvents, FirstOfTitle)
      yesCount == Cardinality({k \in 1..Len(uniqueMatches) : uniqueMatches[k].outcome = "YES"})
      noCount  == Cardinality({k \in 1..Len(uniqueMatches) : uniqueMatches[k].outcome = "NO"})
      matchCount == Len(uniqueMatches)
  IN  [hasHistoricalData |-> matchCount > 0,
       matchCount |-> matchCount,
       matchedEvents |-> uniqueMatches,
       confidenceBoost |-> min(35, ConfidenceBoost(matchCount)),
       avgOutcome |-> IF matchCount > 0
                      THEN (IF yesCount > noCount THEN "YES" ELSE "NO")
                      ELSE "undefined",
       yesCount |-> yesCount,
       noCount |-> noCount,
       matchType |-> IF matchCount > 0 THEN "topic" ELSE "none",
       detectedTopic |-> "other"]

(***************************************************************************)
(* Inputs of findHistoricalMatchesAsync and replies of the LLM             *)
(***************************************************************************)

BetTitles == { <<"N","e","w"," ","t","a","r","i","f","f"," ","o","n"," ","c","a","r","s">>,
               <<"R","a","t","e"," ","c","u","t"," ","i","n"," ","M","a","y">> }

TickerLists == { <<S_AAPL>>, <<S_aapl, S_TSLA>>, <<S_MSFT>>, << >> }

Interval(a, b) == [k \in 1..(b - a + 1) |-> a + k - 1]

\* the replies: nothing (every model failed or answered nothing), a text
\* without a list, a list that JSON.parse rejects, or a list of numbers
Replies ==
  LET n == Len(getAllHistoricalBets)
  IN  {[kind |-> "null", indices |-> << >>],
       [kind |-> "text", indices |-> << >>],
       [kind |-> "badArray", indices |-> << >>]}
      \cup {[kind |-> "indices", indices |-> Interval(a, b)] :
              a \in 0..(n + 1), b \in 0..(n + 1)}
      \cup {[kind |-> "indices", indices |-> l] : l \in {<<1, 1>>, <<2, 1>>, <<2, 1, 2>>}}

InitInsight ==
  /\ ipc = "start"
  /\ betTitle \in BetTitles
  /\ affectedTickers \in TickerLists
  /\ apiKey \in BOOLEAN
  /\ content = [kind |-> "none", indices |-> << >>]
  /\ semanticMatches = << >>
  /\ insight = [matchCount |-> 0]
  /\ pc = "idle" /\ event = << >> /\ matches = << >>
  /\ fpc = "idle" /\ offset = 0 /\ hasMore = FALSE /\ allEvents = << >>
  /\ MainIdle
  /\ GroqIdle
  /\ HedgeIdle
  /\ RouteIdle

\* findSemanticMatches returns [] without a request; the insight is built
NoSearch ==
  /\ ipc = "start"
  /\ NoRequest(apiKey, getAllHistoricalBets, affectedTickers)
  /\ semanticMatches' = << >>
  /\ insight' = Insight(semanticMatches')
  /\ ipc' = "done"
  /\ UNCHANGED <<betTitle, affectedTickers, apiKey, content, matchVars, fetchVars, mainVars, groqVars, hedgeVars, routeVars>>

\* const content = await callGroqWithFallback(GROQ_API_KEY, prompt)
AskGroq(reply) ==
  /\ ipc = "start"
  /\ ~NoRequest(apiKey, getAllHistoricalBets, affectedTickers)
  /\ content' = reply
  /\ ipc' = "replied"
  /\ UNCHANGED <<betTitle, affectedTickers, apiKey, semanticMatches, insight,
                 matchVars, fetchVars, mainVars, groqVars, hedgeVars, routeVars>>

\* the rest of findSemanticMatches and of findHistoricalMatchesAsync
Conclude ==
  /\ ipc = "replied"
  /\ semanticMatches' =
       SemanticResults(content, RelevantBets(getAllHistoricalBets, affectedTickers), betTitle)
  /\ insight' = Insight(semanticMatches')
  /\ ipc' = "done"
  /\ UNCHANGED <<betTitle, affectedTickers, apiKey, content, matchVars, fetchVars, mainVars, groqVars, hedgeVars, routeVars>>

NextInsight ==
  \/ NoSearch
  \/ \E reply \in Replies : AskGroq(reply)
  \/ Conclude

SpecInsight == InitInsight /\ [][NextInsight]_vars

(***************************************************************************)
(* Properties of main (checked under SpecBackfill)                         *)
(***************************************************************************)

\* C12: in the BackfillData that main writes, totalMatches is the number
\* of pairs, totalMatches <= totalEvents, and every pair has at least one
\* matched stock: the events without a stock match are not written.
C12_WrittenTotals ==
  file.written =>
    /\ file.totalMatches = Len(file.pairs)
    /\ file.totalMatches <= file.totalEvents
    /\ file.totalEvents = Len(allEvents)
    /\ \A i \in 1..Len(file.pairs) : Len(file.pairs[i].matchedStocks) >= 1
    /\ file.totalMatches = Cardinality({i \in 1..Len(allEvents) : Len(matchEventToStocks(allEvents[i])) > 0})

\* a file is written for events of which one has no stock match
C12_Witness ==
  /\ file.written
  /\ file.totalMatches >= 1
  /\ file.totalMatches < file.totalEvents

\* C17: when a page request fails (non-OK status or thrown error) after
\* earlier pages succeeded, fetchResolvedEvents returns exactly the events
\* of the earlier pages, and main goes on to match, price and write them;
\* main writes no file only when no event was returned.
C17_FailedRequestKeepsEvents ==
  /\ [][(FetchNotOk \/ FetchThrows) => (fpc' = "fetched" /\ allEvents' = allEvents)]_vars
  /\ [][(fpc # "fetching") => (allEvents' = allEvents)]_vars
  /\ [][(fpc = "fetched" /\ Len(allEvents) > 0) => (fpc' = "step2")]_vars
  /\ [][(fpc = "step2") => (fpc' = "step3" /\ matchedPairs' = MatchedPairs(allEvents))]_vars
  /\ [][(fpc = "step3") => (fpc' = "step4")]_vars
  /\ [][(fpc = "step4") => (file'.written /\ file'.totalEvents = Len(allEvents))]_vars
  /\ [][(fpc = "fetched" /\ Len(allEvents) = 0) => (fpc' = "exited" /\ ~file'.written)]_vars
  /\ [](fpc = "exited" => (Len(allEvents) = 0 /\ ~file.written))
  /\ [](file.written =>
          /\ file.totalEvents = Len(allEvents)
          /\ Len(file.pairs) = Len(MatchedPairs(allEvents))
          /\ \A i \in 1..Len(file.pairs) : file.pairs[i].event = MatchedPairs(allEvents)[i].event)

\* a request fails with a non-OK status after a full page, and the file is
\* written with the events of the earlier pages
C17_Witness ==
  /\ file.written
  /\ hasMore
  /\ offset > 0
  /\ file.totalEvents > 0

(***************************************************************************)
(* Properties of callGroqWithFallback (checked under SpecGroq)             *)
(***************************************************************************)

\* C13: the models of GROQ_MODELS are tried in list order, each at most
\* once; a 429, another non-OK status, a thrown error and an empty content
\* lead to the next model; the content of the first model with a non-empty
\* content is returned and no later model is called; null is returned only
\* after every model was tried.
C13_ModelsInOrder ==
  /\ [](/\ Len(tried) <= Len(GROQ_MODELS)
        /\ \A i \in 1..Len(tried) : tried[i].model = GROQ_MODELS[i]
        /\ \A i \in 1..Len(tried) : \A j \in 1..Len(tried) :
             tried[i].model = tried[j].model => i = j)
  /\ []((gpc = "calling" /\ Len(tried) > 0) => ~Truthy(lastReply))
  /\ []((gpc = "returned" /\ ~result.isNull) =>
          (Truthy(lastReply) /\ result.text = lastReply.text))
  /\ []((gpc = "returned" /\ result.isNull) =>
          (Len(tried) = Len(GROQ_MODELS) /\ ~Truthy(lastReply)))
  /\ [][(gpc = "calling" /\ Len(tried) < Len(GROQ_MODELS)) =>
          /\ tried' = Append(tried, [model |-> GROQ_MODELS[Len(tried) + 1],
                                     max_tokens |-> request.maxTokens,
                                     prompt |-> request.prompt])
          /\ gpc' = (IF Truthy(lastReply') THEN "returned" ELSE "calling")]_vars
  /\ [][(gpc = "returned") => (tried' = tried /\ result' = result)]_vars

\* the third model is the first to give a content, after a 429 of the second
C13_Witness ==
  /\ gpc = "returned"
  /\ ~result.isNull
  /\ Len(tried) = 3

(***************************************************************************)
(* Properties of analyzeWithGroq (checked under SpecHedge)                 *)
(***************************************************************************)

\* C14: analyzeWithGroq returns the result of the first model, in list
\* order, for which tryModel succeeds and calls no later model; a failure
\* of a model (429, 400, 404, another non-OK status, no content, no JSON,
\* a network error) leads to the next model; it throws exactly when every
\* model was tried once and none succeeded.
C14_FirstSuccessfulModel ==
  /\ [](/\ Len(called) <= Len(HEDGE_MODELS)
        /\ \A i \in 1..Len(called) : called[i] = HEDGE_MODELS[i])
  /\ []((apc = "calling" /\ Len(called) > 0) => answer.kind # "json" \/ answer.recommendations.kind = "notArray")
  /\ []((apc = "returned") =>
          /\ answer.kind = "json"
          /\ Len(analysis.recommendations) = Len(answer.recommendations.list))
  /\ []((apc = "thrown") =>
          /\ Len(called) = Len(HEDGE_MODELS)
          /\ answer.kind # "json" \/ answer.recommendations.kind = "notArray")
  /\ [][(apc = "calling" /\ Len(called) < Len(HEDGE_MODELS)) =>
          /\ called' = Append(called, HEDGE_MODELS[Len(called) + 1])
          /\ (answer'.kind \in {"throws", "status", "noContent", "noBraces", "badJson"}
                => apc' = "calling")
          /\ apc' # "thrown"]_vars
  /\ [][(apc = "calling" /\ Len(called) = Len(HEDGE_MODELS)) => (apc' = "thrown")]_vars
  /\ [][(apc \in {"returned", "thrown"}) => (called' = called /\ analysis' = analysis)]_vars

\* the second model fails with status 500 and the third succeeds
C14_Witness ==
  /\ apc = "returned"
  /\ Len(called) = 3
  /\ Len(analysis.recommendations) > 0

\* C15: the recommendations analyzeWithGroq returns hold at most one entry
\* per market title, also when the JSON of the model repeats a market.
C15_OneEntryPerMarket ==
  apc = "returned" =>
    \A i \in 1..Len(analysis.recommendations) : \A j \in 1..Len(analysis.recommendations) :
      analysis.recommendations[i].market = analysis.recommendations[j].market => i = j

(***************************************************************************)
(* Properties of /api/correlation (checked under SpecRoute)                *)
(***************************************************************************)

\* C16: POST answers 400 with the error 'betTitle is required', and starts
\* no correlation analysis and no LLM request, when the body read has no
\* or an empty betTitle; GET answers 400 for every action other than
\* 'stats' and 'quick-match'; an exception in either handler gives status
\* 500 with an error message.
C16_BadRequests ==
  /\ (/\ httpRequest.method = "POST"
      /\ httpRequest.body.kind \in {"object", "number"}
      /\ \/ httpRequest.body.kind = "number"
         \/ httpRequest.body.betTitle.kind = "undefined"
         \/ httpRequest.body.betTitle = [kind |-> "string", text |-> ""])
     => /\ ~analysisStarted
        /\ llmRequests = 0
        /\ rpc \in {"received", "responded"}
        /\ rpc = "responded" =>
             (response.status = 400 /\ response.error = "betTitle is required")
  /\ (/\ httpRequest.method = "GET"
      /\ rpc = "responded"
      /\ httpRequest.query.action # [kind |-> "string", text |-> "stats"]
      /\ httpRequest.query.action # [kind |-> "string", text |-> "quick-match"])
     => response.status = 400
  /\ (rpc = "responded" /\ error.caught)
     => /\ response.status = 500
        /\ response.error = (IF error.isError THEN error.message
                             ELSE IF httpRequest.method = "POST"
                                  THEN "Correlation analysis failed" ELSE "Request failed")
  /\ (rpc = "responded" /\ response.status = 500) => error.caught

\* a POST with the betTitle "" is answered with 400
C16_Witness ==
  /\ rpc = "responded"
  /\ httpRequest.method = "POST"
  /\ httpRequest.body.kind = "object"
  /\ httpRequest.body.betTitle = [kind |-> "string", text |-> ""]
  /\ response.status = 400

(***************************************************************************)
(* Properties of findHistoricalMatchesAsync (checked under SpecInsight)    *)
(***************************************************************************)

\* the number of different titles among the semantic matches
UniqueTitles == Cardinality({semanticMatches[k].title : k \in 1..Len(semanticMatches)})

\* C5: the confidenceBoost of the insight depends only on matchCount, the
\* number of title-unique matched events: 0 for 0 matches, 15 for 1-2, 25
\* for 3-4, 30 for 5-9, 35 for 10 or more; it is within 0..35 and is
\* non-decreasing in matchCount.
C5_BoostByMatchCount ==
  ipc = "done" =>
    /\ insight.matchCount = UniqueTitles
    /\ insight.matchCount = 0 => insight.confidenceBoost = 0
    /\ insight.matchCount \in 1..2 => insight.confidenceBoost = 15
    /\ insight.matchCount \in 3..4 => insight.confidenceBoost = 25
    /\ insight.matchCount \in 5..9 => insight.confidenceBoost = 30
    /\ insight.matchCount >= 10 => insight.confidenceBoost = 35
    /\ insight.confidenceBoost \in 0..35
    /\ \A n \in 0..(NumPairs + 2) :
         /\ n <= insight.matchCount => min(35, ConfidenceBoost(n)) <= insight.confidenceBoost
         /\ n >= insight.matchCount => min(35, ConfidenceBoost(n)) >= insight.confidenceBoost

\* ten events are matched, one of them through two of its stocks
C5_Witness ==
  /\ ipc = "done"
  /\ insight.matchCount >= 10
  /\ Len(semanticMatches) > insight.matchCount
  /\ insight.confidenceBoost = 35

\* C11: avgOutcome is the outcome that was more common among the matched
\* events: "YES" only when yesCount > noCount, "NO" only when noCount >
\* yesCount; it is undefined exactly when there are no matches.
C11_AvgOutcomeIsMoreCommon ==
  ipc = "done" =>
    /\ insight.yesCount > insight.noCount => insight.avgOutcome = "YES"
    /\ insight.noCount > insight.yesCount => insight.avgOutcome = "NO"
    /\ insight.avgOutcome = "YES" => insight.yesCount > insight.noCount
    /\ insight.avgOutcome = "NO" => insight.noCount > insight.yesCount
    /\ insight.avgOutcome = "undefined" <=> insight.matchCount = 0

(***************************************************************************)
(* Properties of fetchResolvedEvents (checked under SpecBackfill)          *)
(***************************************************************************)

\* the prices of the first market of an API event, as sent
FirstMarketPrices(raw) ==
  IF raw.markets.kind = "array" /\ Len(raw.markets.list) >= 1
  THEN LET p == raw.markets.list[1].outcomePrices
       IN  IF p.kind = "array" \/ (p.kind = "string" /\ p.json = "array")
           THEN p.elems ELSE << >>
  ELSE << >>

HasFirstPrice(raw) == Len(FirstMarketPrices(raw)) >= 1

\* the first price is a number, or a string that reads as one
IsNumeric(x) == x.t \in {"number", "string"}

\* C6: the outcome of a collected event is 'YES' when the first price of its
\* first market is greater than 0.95, 'NO' when it is less than 0.05 and
\* 'UNKNOWN' otherwise (also without markets, without outcomePrices, or with
\* outcomePrices that cannot be parsed); finalProbability is null exactly
\* when there is no first price.
C6_OutcomeFromFirstPrice ==
  \A k \in 1..Len(allEvents) :
     LET r     == allEvents[k]
         first == FirstMarketPrices(r.raw)[1]
     IN  /\ r.outcome = "YES"
              <=> (HasFirstPrice(r.raw) /\ IsNumeric(first) /\ first.v > 95)
         /\ r.outcome = "NO"
              <=> (HasFirstPrice(r.raw) /\ IsNumeric(first) /\ first.v < 5)
         /\ r.outcome \in {"YES", "NO", "UNKNOWN"}
         /\ r.finalProbability = Null <=> ~HasFirstPrice(r.raw)

\* an event is collected whose first price is exactly 0.95, with outcome
\* UNKNOWN, the second price and the second market notwithstanding
C6_Witness ==
  /\ fpc = "fetched"
  /\ \E k \in 1..Len(allEvents) :
       /\ HasFirstPrice(allEvents[k].raw)
       /\ FirstMarketPrices(allEvents[k].raw)[1] = Number(95)
       /\ allEvents[k].outcome = "UNKNOWN"
       /\ allEvents[k].finalProbability = Number(95)

\* C7 (as claimed): every collected event has a parsable resolution date that
\* is not in the future and lies within the last 6 months before the run.
C7_WithinLastSixMonths ==
  \A k \in 1..Len(allEvents) :
     /\ allEvents[k].resolutionDate.kind = "date"
     /\ allEvents[k].resolutionDate.month <= today
     /\ allEvents[k].resolutionDate.month >= today - 6

(***************************************************************************)
(* Properties of the matching pipeline (checked under SpecMatch)           *)
(***************************************************************************)

\* word is the substring of text that starts at the 0-based index i
SubstringAt(text, word, i) ==
  /\ i + Len(word) <= Len(text)
  /\ SubSeq(text, i + 1, i + Len(word)) = word

IsSubstring(text, word) == \E i \in 0..Len(text) : SubstringAt(text, word, i)

\* an occurrence of word at i whose neighbours, when they exist, are no letters
StandaloneAt(text, word, i) ==
  /\ SubstringAt(text, word, i)
  /\ i > 0 => text[i] \notin LowerLetters
  /\ i + Len(word) < Len(text) => text[i + Len(word) + 1] \notin LowerLetters

IsStandalone(text, word) == \E i \in 0..Len(text) : StandaloneAt(text, word, i)

\* word occurs in text, and every occurrence is inside a longer alphabetic word
OnlyEmbedded(text, word) == IsSubstring(text, word) /\ ~IsStandalone(text, word)

TitleLower == toLowerCase(event.title)
DescLower  == toLowerCase(event.description)
EventText  == toLowerCase(Spaced(event.title, event.description))

Tickers == {matches[k].ticker : k \in 1..Len(matches)}

IsDirect(m) == m.matchReason.kind = "Direct mention"

\* the declaration order of the topics
TopicOrder ==
  << "regulatory", "safety_incident", "legal", "geopolitical", "election",
     "product_launch", "executive", "social_media", "crypto", "ai_tech",
     "financial", "entertainment" >>

KeywordsOfTopic(topic) ==
  TOPIC_KEYWORDS[CHOOSE i \in 1..Len(TOPIC_KEYWORDS) : TOPIC_KEYWORDS[i].topic = topic].keywords

TopicOccurs(topic) ==
  \E k \in 1..Len(KeywordsOfTopic(topic)) :
     IsSubstring(EventText, toLowerCase(KeywordsOfTopic(topic)[k]))

\* C1: extractTopic returns the topic of the first entry, in the declaration
\* order regulatory .. entertainment, one of whose keywords is a
\* case-insensitive substring of title + ' ' + description, and 'other'
\* exactly when no keyword of any entry occurs.
C1_FirstTopicInDeclarationOrder ==
  pc \in {"topic", "matched"} =>
    /\ [i \in 1..Len(TOPIC_KEYWORDS) |-> TOPIC_KEYWORDS[i].topic] = TopicOrder
    /\ \A i \in 1..Len(TopicOrder) :
         event.topic = TopicOrder[i]
           <=> /\ TopicOccurs(TopicOrder[i])
               /\ \A j \in 1..(i - 1) : ~TopicOccurs(TopicOrder[j])
    /\ event.topic = "other" <=> \A i \in 1..Len(TopicOrder) : ~TopicOccurs(TopicOrder[i])

\* a text whose first keyword in reading order (a legal one) is not the one
\* that decides: the safety_incident entry is declared earlier
C1_Witness ==
  /\ pc = "topic"
  /\ event.topic = "safety_incident"
  /\ TopicOccurs("legal")
  /\ ~TopicOccurs("regulatory")

\* C2: a 'Direct mention' match is produced only for a name that has, in the
\* title or in the description, an occurrence whose neighbouring characters
\* (when they exist) are not letters a-z; a name that occurs only embedded
\* in longer words gives no direct match.
C2_DirectMentionAtWordBoundary ==
  pc = "matched" =>
    \A k \in 1..Len(matches) :
       IsDirect(matches[k]) =>
         \/ IsStandalone(TitleLower, toLowerCase(matches[k].companyName))
         \/ IsStandalone(DescLower, toLowerCase(matches[k].companyName))

S_zoom == <<"z","o","o","m">>

\* 'zoom' occurs only inside a longer word, ZM is not matched, and another
\* company is matched directly
C2_Witness ==
  /\ pc = "matched"
  /\ OnlyEmbedded(TitleLower, S_zoom)
  /\ ~IsSubstring(DescLower, S_zoom)
  /\ "ZM" \notin Tickers
  /\ \E k \in 1..Len(matches) : IsDirect(matches[k])

\* some keyword of the high-impact group occurs in the lowercased text
GroupOccurs(group) ==
  \E k \in 1..Len(group.keywords) :
     IsSubstring(Spaced(TitleLower, DescLower), toLowerCase(group.keywords[k]))

\* C3: when the text contains a keyword of a HIGH_IMPACT_KEYWORDS group,
\* every ticker of the group's stocks is in the result.
C3_HighImpactAlwaysMatch ==
  pc = "matched" =>
    \A g \in 1..Len(HIGH_IMPACT_KEYWORDS) :
       GroupOccurs(HIGH_IMPACT_KEYWORDS[g]) =>
         \A s \in 1..Len(HIGH_IMPACT_KEYWORDS[g].stocks) :
            HIGH_IMPACT_KEYWORDS[g].stocks[s] \in Tickers

\* a group's keyword occurs, one of its tickers is a direct match of phase 1
\* and another one is a keyword match of phase 2
C3_Witness ==
  /\ pc = "matched"
  /\ \E g \in 1..Len(HIGH_IMPACT_KEYWORDS) :
       /\ GroupOccurs(HIGH_IMPACT_KEYWORDS[g])
       /\ \E k \in 1..Len(matches) :
            /\ IsDirect(matches[k])
            /\ \E s \in 1..Len(HIGH_IMPACT_KEYWORDS[g].stocks) :
                 HIGH_IMPACT_KEYWORDS[g].stocks[s] = matches[k].ticker
       /\ \E k \in 1..Len(matches) :
            /\ matches[k].matchReason.kind = "Keyword correlation"
            /\ matches[k].matchReason.detail = HIGH_IMPACT_KEYWORDS[g].reason

\* C4: the list returned by matchEventToStocks holds no ticker twice.
C4_NoTickerTwice ==
  pc = "matched" =>
    \A i, j \in 1..Len(matches) : matches[i].ticker = matches[j].ticker => i = j

\* all three phases contribute, and a ticker matched directly is also listed
\* for the event's topic
C4_Witness ==
  /\ pc = "matched"
  /\ \E k \in 1..Len(matches) :
       /\ IsDirect(matches[k])
       /\ event.topic # "other"
       /\ \E s \in 1..Len(TOPIC_STOCK_MAPPINGS[event.topic].stocks) :
            TOPIC_STOCK_MAPPINGS[event.topic].stocks[s] = matches[k].ticker
  /\ \E k \in 1..Len(matches) : matches[k].matchReason.kind = "Sector correlation"

\* the entry of COMPANY_MAPPINGS with the given key
Company(key) ==
  COMPANY_MAPPINGS[CHOOSE i \in 1..Len(COMPANY_MAPPINGS) : COMPANY_MAPPINGS[i].key = key]

\* C8 (as claimed): an event whose text contains 'meta' only inside a longer
\* word, mentions no other Meta alias and has topic 'other' is not matched
\* to ticker META.
C8_EmbeddedMetaNotMatched ==
  ( /\ pc = "matched"
    /\ OnlyEmbedded(EventText, S_meta)
    /\ \A k \in 1..Len(Company("META").names) :
          ~IsSubstring(EventText, toLowerCase(Company("META").names[k]))
    /\ event.topic = "other" )
  => "META" \notin Tickers

S_lawsuit == <<"l","a","w","s","u","i","t">>

\* the words of a text: its maximal runs of characters other than the space
WordAt(text, i, j) ==
  /\ i <= j
  /\ \A k \in i..j : text[k] # " "
  /\ i > 1 => text[i - 1] = " "
  /\ j < Len(text) => text[j + 1] = " "

WordsOf(text) ==
  {SubSeq(text, i, j) : <<i, j>> \in {p \in (1..Len(text)) \X (1..Len(text)) :
                                         WordAt(text, p[1], p[2])}}

\* C9 (as claimed): a text that contains the word 'lawsuit' and no word that
\* is itself a regulatory or safety_incident keyword is classified 'legal'.
C9_LawsuitIsLegal ==
  ( /\ pc \in {"topic", "matched"}
    /\ S_lawsuit \in WordsOf(EventText)
    /\ \A t \in {"regulatory", "safety_incident"} :
          \A k \in 1..Len(KeywordsOfTopic(t)) :
             toLowerCase(KeywordsOfTopic(t)[k]) \notin WordsOf(EventText) )
  => event.topic = "legal"

\* C10 (as claimed): a listed name or exactOnly word of length at least 3
\* that stands in the title as a word of its own gives the company's entry
\* with a 'Direct mention' reason, whatever else the title and description
\* contain.
C10_StandaloneNameIsMatched ==
  pc = "matched" =>
    \A c \in 1..Len(COMPANY_MAPPINGS) :
       \A w \in Range(COMPANY_MAPPINGS[c].names) \cup Range(COMPANY_MAPPINGS[c].exactOnly) :
          (Len(w) >= 3 /\ IsStandalone(TitleLower, toLowerCase(w)))
            => \E k \in 1..Len(matches) :
                  matches[k].ticker = COMPANY_MAPPINGS[c].key /\ IsDirect(matches[k])


=============================================================================
